---- MODULE Spec2Model ----
(***************************************************************************)
(* Cylindrical panorama stitching: the pipeline of src/src/pipeline.py and *)
(* the pure functions it calls (sequence accumulator, drift corrector,     *)
(* canvas compositor).                                                     *)
(*                                                                         *)
(* Floating-point quantities are modelled exactly:                         *)
(*   - a "Num" is (m/pi + z + p*pi)/d with integers m, z, p and d > 0,     *)
(*     which is closed under the operations of the drift corrector;        *)
(*   - pixel geometry of the compositor is in fixed point, PxUnit units    *)
(*     per pixel, so that rounding and ceiling are the code's.             *)
(***************************************************************************)
EXTENDS Integers, Sequences, FiniteSets, TLC

VARIABLES
    config,        \* Config of the run (PanoramaStitcher.config)
    env,           \* the input directory and what the external detector reads
    pc,            \* position of PanoramaStitcher.run
    idx,           \* loop index of the running stage (0-based, as in the code)
    images_data,   \* self.images_data
    focal_length,  \* self.focal_length: <<>> is None, <<f>> a value
    warped_images, \* self.warped_images
    features,      \* self.features
    translations,  \* self.translations
    drift_record,  \* drift_correction.json: <<>> when not written
    estimator_log, \* calls of estimate_pure_translation_ransac, in order
    panorama,      \* what blend_images consumed and returned: <<>> before
    error,         \* exception that ended the run, "none" otherwise
    stages,        \* stages of run() entered so far
    u_in,          \* arguments of the pure function under check
    u_frame,       \* locals of a call that loops: <<>> outside such a call
    u_out          \* its result: <<>> before the call

vars ==
    <<config, env, pc, idx, images_data, focal_length, warped_images, features,
      translations, drift_record, estimator_log, panorama, error, stages,
      u_in, u_frame, u_out>>

pipeVars ==
    <<config, env, pc, idx, images_data, focal_length, warped_images, features,
      translations, drift_record, estimator_log, panorama, error, stages>>

unitVars ==
    <<u_in, u_frame, u_out>>

----------------------------------------------------------------------------
(* Exact arithmetic on (m/pi + z + p*pi)/d *)

Abs(x) ==
    IF x < 0 THEN -x ELSE x

RECURSIVE Gcd(_, _)
Gcd(a, b) ==
    IF b = 0 THEN a ELSE Gcd(b, a % b)

NNorm(m, z, p, d) ==
    LET s == IF d < 0 THEN -1 ELSE 1
        g == Gcd(Gcd(Abs(m), Abs(z)), Gcd(Abs(p), Abs(d)))
    IN  [m |-> (s * m) \div g, z |-> (s * z) \div g,
         p |-> (s * p) \div g, d |-> (s * d) \div g]

\* a value the representation cannot hold (never produced on the inputs used)
NUndef ==
    [m |-> 0, z |-> 0, p |-> 0, d |-> 0]

NRat(a, b) ==
    NNorm(0, a, 0, b)

NInt(k) ==
    NRat(k, 1)

NZero ==
    NInt(0)

\* a rational multiple of pi: (a/b)*pi
NPiMul(a, b) ==
    NNorm(0, 0, a, b)

NPi ==
    NPiMul(1, 1)

NAdd(a, b) ==
    NNorm(a.m * b.d + b.m * a.d, a.z * b.d + b.z * a.d,
          a.p * b.d + b.p * a.d, a.d * b.d)

NNeg(a) ==
    [m |-> -a.m, z |-> -a.z, p |-> -a.p, d |-> a.d]

NSub(a, b) ==
    NAdd(a, NNeg(b))

NMul(a, b) ==
    IF a.m * b.m # 0 \/ a.p * b.p # 0
    THEN NUndef
    ELSE NNorm(a.m * b.z + a.z * b.m,
               a.m * b.p + a.z * b.z + a.p * b.m,
               a.z * b.p + a.p * b.z,
               a.d * b.d)

NIsMonomial(b) ==
    /\ b.d # 0
    /\ Cardinality({k \in {"m", "z", "p"} : b[k] # 0}) = 1

\* 1/b for a monomial b = c*pi^k/d
NInv(b) ==
    IF b.m # 0 THEN NNorm(0, 0, b.d, b.m)
    ELSE IF b.z # 0 THEN NNorm(0, b.d, 0, b.z)
    ELSE NNorm(b.d, 0, 0, b.p)

NDiv(a, b) ==
    IF NIsMonomial(b) THEN NMul(a, NInv(b)) ELSE NUndef

\* np.degrees: x * 180 / pi
NDegrees(x) ==
    NMul(x, NNorm(180, 0, 0, 1))

RECURSIVE NSum(_)
NSum(s) ==
    IF s = <<>> THEN NZero ELSE NAdd(Head(s), NSum(Tail(s)))

----------------------------------------------------------------------------
(* Sequence accumulator: blending.py, compute_cumulative_translations *)

\* Translations and placements are <<x, y>> in units of 1/PxUnit pixel.
\* One iteration of the loop: current_y -= dy, current_x untouched.
AccumulateStepBoth(current, t) ==
    <<current[1] - t[1], current[2] - t[2]>>

AccumulateStep(current, t) ==
    <<current[1], current[2] - t[2]>>

RECURSIVE CumulativeFrom(_, _)
CumulativeFrom(current, pairwise) ==
    IF pairwise = <<>>
    THEN <<>>
    ELSE LET next == AccumulateStep(current, Head(pairwise))
         IN  <<next>> \o CumulativeFrom(next, Tail(pairwise))

\* the initial list: cumulative = [(0.0, 0.0)]
CumulativeInitEmpty ==
    <<>>

CumulativeInit ==
    <<(<<0, 0>>)>>

compute_cumulative_translations(pairwise_translations) ==
    CumulativeInit \o CumulativeFrom(<<0, 0>>, pairwise_translations)

----------------------------------------------------------------------------
(* Drift corrector: drift.py *)

MinInliers ==
    10

\* min_inlier_ratio = 0.3 as a fraction
MinInlierRatioNum ==
    3

MinInlierRatioDen ==
    10

\* an inlier ratio is a fraction <<a, b>> with b > 0; a/b < c/e
RatioLess(r, c, e) ==
    r[1] * e < c * r[2]

should_apply_mutant_gt(first_last_match_quality) ==
    IF first_last_match_quality.num_inliers <= MinInliers
    THEN FALSE
    ELSE IF RatioLess(first_last_match_quality.inlier_ratio,
                      MinInlierRatioNum, MinInlierRatioDen)
    THEN FALSE
    ELSE TRUE

should_apply_drift_correction(first_last_match_quality) ==
    IF first_last_match_quality.num_inliers < MinInliers
    THEN FALSE
    ELSE IF RatioLess(first_last_match_quality.inlier_ratio,
                      MinInlierRatioNum, MinInlierRatioDen)
    THEN FALSE
    ELSE TRUE

RECURSIVE TranslationDys(_)
TranslationDys(ts) ==
    IF ts = <<>> THEN <<>> ELSE <<Head(ts).translation[2]>> \o TranslationDys(Tail(ts))

correct_drift_mutant_total(translations_, first_last_translation, focal, image_width) ==
    LET n_images == Len(translations_) + 1
        total_dy == NSum(TranslationDys(translations_))
        theta_gap == NDiv(total_dy, focal)
    IN  [corrected_focal_length |->
             NMul(focal, NSub(NInt(1), NDiv(theta_gap, NMul(NInt(2), NPi)))),
         original_focal_length |-> focal,
         gap_angle |-> theta_gap,
         gap_angle_degrees |-> NDegrees(theta_gap),
         correction_per_pair |-> NDiv(theta_gap, NInt(n_images)),
         num_images |-> n_images,
         correction_applied |-> TRUE]

correct_drift(translations_, first_last_translation, focal, image_width) ==
    LET n_images == Len(translations_) + 1
        dx_gap == first_last_translation.translation[1]
        dy_gap == first_last_translation.translation[2]
        total_dy == NSum(TranslationDys(translations_))
        theta_accumulated == NDiv(total_dy, focal)
        theta_gap == NDiv(dy_gap, focal)
        correction_per_pair == NDiv(theta_gap, NInt(n_images))
        corrected_focal_length ==
            NMul(focal, NSub(NInt(1), NDiv(theta_gap, NMul(NInt(2), NPi))))
    IN  [corrected_focal_length |-> corrected_focal_length,
         original_focal_length |-> focal,
         gap_angle |-> theta_gap,
         gap_angle_degrees |-> NDegrees(theta_gap),
         correction_per_pair |-> correction_per_pair,
         num_images |-> n_images,
         correction_applied |-> TRUE]

----------------------------------------------------------------------------
(* Canvas compositor: blending.py.  Lengths are in units of 1/PxUnit pixel; *)
(* an image is [h, w, pix] with pix[<<row, col>>] a BGR triple of uint8.    *)

PxUnit ==
    2

BlendMethods ==
    {"average", "linear", "multiband"}

Min2(a, b) ==
    IF a < b THEN a ELSE b

Max2(a, b) ==
    IF a > b THEN a ELSE b

CeilPxDown(v) ==
    v \div PxUnit

CeilPxUp(v) ==
    (v \div PxUnit) + 1

\* int(np.ceil(v / PxUnit))
CeilPx(v) ==
    IF v % PxUnit = 0 THEN v \div PxUnit ELSE (v \div PxUnit) + 1

\* int(np.round(v / PxUnit)): halves go to the even neighbour
RoundPx(v) ==
    LET q == v \div PxUnit
        r == v % PxUnit
    IN  IF 2 * r < PxUnit THEN q
        ELSE IF 2 * r > PxUnit THEN q + 1
        ELSE IF q % 2 = 0 THEN q ELSE q + 1

\* for img, (tx, ty) in zip(images, translations)
ZipLen(images, translations_) ==
    Min2(Len(images), Len(translations_))

RECURSIVE BoundsFrom(_, _, _, _)
BoundsFrom(k, images, translations_, acc) ==
    IF k > ZipLen(images, translations_)
    THEN acc
    ELSE LET tx == translations_[k][1]
             ty == translations_[k][2]
             w == images[k].w * PxUnit
             h == images[k].h * PxUnit
             upd == IF acc.finite
                    THEN [finite |-> TRUE,
                          min_x |-> Min2(acc.min_x, Min2(tx, tx + w)),
                          max_x |-> Max2(acc.max_x, Max2(tx, tx + w)),
                          min_y |-> Min2(acc.min_y, Min2(ty, ty + h)),
                          max_y |-> Max2(acc.max_y, Max2(ty, ty + h))]
                    ELSE [finite |-> TRUE,
                          min_x |-> Min2(tx, tx + w), max_x |-> Max2(tx, tx + w),
                          min_y |-> Min2(ty, ty + h), max_y |-> Max2(ty, ty + h)]
         IN  BoundsFrom(k + 1, images, translations_, upd)

\* finite = FALSE stands for (inf, -inf, inf, -inf), the result for no image
compute_canvas_bounds(images, translations_) ==
    BoundsFrom(1, images, translations_,
               [finite |-> FALSE, min_x |-> 0, max_x |-> 0, min_y |-> 0, max_y |-> 0])

\* lines 71-86: the offset of image k on the canvas and its clamped size
Placement(img, t, b, canvas_width, canvas_height) ==
    LET x0 == RoundPx(t[1] - b.min_x)
        y0 == RoundPx(t[2] - b.min_y)
        w1 == IF x0 + img.w > canvas_width THEN canvas_width - x0 ELSE img.w
        h1 == IF y0 + img.h > canvas_height THEN canvas_height - y0 ELSE img.h
        w2 == IF x0 < 0 THEN w1 + x0 ELSE w1
        h2 == IF y0 < 0 THEN h1 + y0 ELSE h1
    IN  [x_offset |-> IF x0 < 0 THEN 0 ELSE x0,
         y_offset |-> IF y0 < 0 THEN 0 ELSE y0,
         w |-> w2, h |-> h2]

\* np.any(img_crop > 0, axis=2)
MaskAll(px) ==
    px[1] > 0 /\ px[2] > 0 /\ px[3] > 0

Mask(px) ==
    px[1] > 0 \/ px[2] > 0 \/ px[3] > 0

InSlice(cell, pl) ==
    /\ pl.y_offset <= cell[1] /\ cell[1] < pl.y_offset + pl.h
    /\ pl.x_offset <= cell[2] /\ cell[2] < pl.x_offset + pl.w

\* lines 93-100: canvas[...] += img_crop * mask; weights[...] += mask
AddImage(st, img, pl) ==
    LET src(cell) == img.pix[<<cell[1] - pl.y_offset, cell[2] - pl.x_offset>>]
        hit(cell) == InSlice(cell, pl) /\ Mask(src(cell))
    IN  [st EXCEPT
           !.canvas = [cell \in DOMAIN st.canvas |->
                         IF hit(cell)
                         THEN <<st.canvas[cell][1] + src(cell)[1],
                                st.canvas[cell][2] + src(cell)[2],
                                st.canvas[cell][3] + src(cell)[3]>>
                         ELSE st.canvas[cell]],
           !.weights = [cell \in DOMAIN st.weights |->
                         IF hit(cell) THEN st.weights[cell] + 1
                         ELSE st.weights[cell]]]

\* one iteration of the loop over zip(images, translations), lines 69-102
PlaceOne(st, k, img, pl) ==
    IF pl.w <= 0 \/ pl.h <= 0
    THEN [st EXCEPT !.skipped = Append(st.skipped, k - 1)]
    ELSE AddImage(st, img, pl)

RECURSIVE PlaceFrom(_, _, _, _, _, _, _)
PlaceFrom(k, images, translations_, b, cw, ch, st) ==
    IF k > ZipLen(images, translations_) \/ st.raised # "none"
    THEN st
    ELSE PlaceFrom(k + 1, images, translations_, b, cw, ch,
                   PlaceOne(st, k, images[k],
                            Placement(images[k], translations_[k], b, cw, ch)))

\* canvas[non_zero] /= weights[non_zero]; canvas.astype(np.uint8)
Normalize(sum, weight) ==
    IF weight > 0
    THEN [c \in 1..3 |-> sum[c] \div weight]
    ELSE sum

Cells(h, w) ==
    (0..(h - 1)) \X (0..(w - 1))

blend_average(images, translations_) ==
    IF Len(images) = 0
    THEN [raised |-> "ValueError", skipped |-> <<>>, h |-> 0, w |-> 0, pix |-> <<>>]
    ELSE LET b == compute_canvas_bounds(images, translations_)
         IN  IF ~b.finite
             THEN [raised |-> "OverflowError", skipped |-> <<>>,
                   h |-> 0, w |-> 0, pix |-> <<>>]
             ELSE LET cw == CeilPx(b.max_x - b.min_x)
                      ch == CeilPx(b.max_y - b.min_y)
                      st0 == [canvas |-> [cell \in Cells(ch, cw) |-> <<0, 0, 0>>],
                              weights |-> [cell \in Cells(ch, cw) |-> 0],
                              skipped |-> <<>>, raised |-> "none"]
                      st == PlaceFrom(1, images, translations_, b, cw, ch, st0)
                  IN  IF st.raised # "none"
                      THEN [raised |-> st.raised, skipped |-> st.skipped,
                            h |-> 0, w |-> 0, pix |-> <<>>]
                      ELSE [raised |-> "none", skipped |-> st.skipped,
                            h |-> ch, w |-> cw,
                            pix |-> [cell \in Cells(ch, cw) |->
                                       Normalize(st.canvas[cell], st.weights[cell])]]

blend_linear_unimplemented(images, translations_) ==
    [raised |-> "NotImplementedError", skipped |-> <<>>, h |-> 0, w |-> 0, pix |-> <<>>]

\* lines 115-130: linear blending falls back to average blending
blend_linear(images, translations_) ==
    blend_average(images, translations_)

\* lines 27-28 and 37-38: what blend_images raises before any compositing
BlendError(images, method) ==
    IF Len(images) = 0 THEN "ValueError"
    ELSE IF method \notin BlendMethods THEN "ValueError"
    ELSE "none"

blend_images(images, translations_, method) ==
    IF BlendError(images, method) # "none"
    THEN [raised |-> BlendError(images, method), skipped |-> <<>>,
          h |-> 0, w |-> 0, pix |-> <<>>]
    ELSE IF method = "linear" THEN blend_linear(images, translations_)
    ELSE blend_average(images, translations_)

----------------------------------------------------------------------------
(* Border trim: crop.py.  A pixel of a colour image is a BGR triple, a pixel *)
(* of a single-channel image a 1-tuple; <<>> is None, <<image>> an array.    *)

\* threshold: int = 10
DefaultCropThreshold ==
    10

\* cv2.cvtColor(image, cv2.COLOR_BGR2GRAY) on uint8: 0.114 B + 0.587 G + 0.299 R
\* rounded to nearest; a single-channel image is its own grey image
Gray(px) ==
    IF Len(px) = 3
    THEN (114 * px[1] + 587 * px[2] + 299 * px[3] + 500) \div 1000
    ELSE px[1]

NonBlackGe(px, threshold) ==
    Gray(px) >= threshold

\* non_black = gray > threshold
NonBlack(px, threshold) ==
    Gray(px) > threshold

\* np.where(np.any(non_black, axis=1))[0]
NonBlackRows(img, threshold) ==
    {y \in 0..(img.h - 1) :
        \E x \in 0..(img.w - 1) : NonBlack(img.pix[<<y, x>>], threshold)}

\* np.where(np.any(non_black, axis=0))[0]
NonBlackCols(img, threshold) ==
    {x \in 0..(img.w - 1) :
        \E y \in 0..(img.h - 1) : NonBlack(img.pix[<<y, x>>], threshold)}

SetMin(S) ==
    CHOOSE a \in S : \A b \in S : a <= b

SetMax(S) ==
    CHOOSE a \in S : \A b \in S : a >= b

CropNoneFoundRaises(img) ==
    [raised |-> "ValueError", h |-> 0, w |-> 0, pix |-> <<>>]

\* lines 37-39: no row or no column holds a non-black pixel
CropNoneFound(img) ==
    [raised |-> "none", h |-> img.h, w |-> img.w, pix |-> img.pix]

CropSliceExclusive(img, y_min, y_max, x_min, x_max) ==
    [raised |-> "none",
     h |-> y_max - y_min,
     w |-> x_max - x_min,
     pix |-> [cell \in Cells(y_max - y_min, x_max - x_min) |->
                img.pix[<<cell[1] + y_min, cell[2] + x_min>>]]]

\* image[y_min : y_max + 1, x_min : x_max + 1]
CropSlice(img, y_min, y_max, x_min, x_max) ==
    [raised |-> "none",
     h |-> y_max - y_min + 1,
     w |-> x_max - x_min + 1,
     pix |-> [cell \in Cells(y_max - y_min + 1, x_max - x_min + 1) |->
                img.pix[<<cell[1] + y_min, cell[2] + x_min>>]]]

crop_panorama(image, threshold) ==
    IF image = <<>> \/ image[1].h * image[1].w = 0
    THEN [raised |-> "ValueError", h |-> 0, w |-> 0, pix |-> <<>>]
    ELSE LET img == image[1]
             rows == NonBlackRows(img, threshold)
             cols == NonBlackCols(img, threshold)
         IN  IF rows = {} \/ cols = {}
             THEN CropNoneFound(img)
             ELSE CropSlice(img, SetMin(rows), SetMax(rows), SetMin(cols), SetMax(cols))

----------------------------------------------------------------------------
(* Robust translation estimator: ransac.py, estimate_pure_translation_ransac. *)
(* Point coordinates and the threshold are integers in half pixels; a        *)
(* translation is in quarter pixels, so that the median of an even number    *)
(* of displacements (the mean of the two middle ones) is exact.  Masks are   *)
(* boolean sequences over the point pairs; indices are 1-based.              *)

\* pts2[idx] - pts1[idx]
Displacement(pts1, pts2, i) ==
    <<pts2[i][1] - pts1[i][1], pts2[i][2] - pts1[i][2]>>

\* lines 132-138: np.linalg.norm(pts1 + (dx, dy) - pts2, axis=1) < threshold
InlierMask(pts1, pts2, d, threshold) ==
    [i \in 1..Len(pts1) |->
        LET ex == pts1[i][1] + d[1] - pts2[i][1]
            ey == pts1[i][2] + d[2] - pts2[i][2]
        IN  threshold > 0 /\ ex * ex + ey * ey < threshold * threshold]

\* np.sum(mask)
CountTrue(mask) ==
    Cardinality({i \in DOMAIN mask : mask[i]})

\* twice np.median of the values of a non-empty sequence
MedianTwice(values) ==
    LET sorted == SortSeq(values, LAMBDA a, b : a < b)
        k == Len(values)
    IN  IF k % 2 = 1 THEN 2 * sorted[(k + 1) \div 2]
        ELSE sorted[k \div 2] + sorted[(k \div 2) + 1]

\* the indices of a mask that are set, in order
MaskIndices(mask) ==
    SelectSeq([i \in 1..Len(mask) |-> i], LAMBDA i : mask[i])

RansacBetterOrEqual(num_inliers, best_inliers) ==
    num_inliers >= best_inliers

RansacBetterAlways(num_inliers, best_inliers) ==
    TRUE

\* line 141: if num_inliers > best_inliers
RansacBetter(num_inliers, best_inliers) ==
    num_inliers > best_inliers

\* lines 117-119: the locals before the loop (sampled: the indices drawn so far)
RansacFrame(pts1) ==
    [it |-> 0, best_inliers |-> 0, best_translation |-> <<0, 0>>,
     best_mask |-> [i \in 1..Len(pts1) |-> FALSE], sampled |-> {}]

RansacStepStaleMask(frame, pts1, pts2, threshold, drawn) ==
    LET d == Displacement(pts1, pts2, drawn)
        mask == InlierMask(pts1, pts2, d, threshold)
        num_inliers == CountTrue(mask)
        better == RansacBetter(num_inliers, frame.best_inliers)
    IN  [it |-> frame.it + 1,
         best_inliers |-> IF better THEN num_inliers ELSE frame.best_inliers,
         best_translation |-> IF better THEN <<2 * d[1], 2 * d[2]>>
                              ELSE frame.best_translation,
         best_mask |-> frame.best_mask,
         sampled |-> frame.sampled \cup {drawn}]

\* lines 124-144: one iteration, where np.random.randint returned drawn
RansacStep(frame, pts1, pts2, threshold, drawn) ==
    LET d == Displacement(pts1, pts2, drawn)
        mask == InlierMask(pts1, pts2, d, threshold)
        num_inliers == CountTrue(mask)
        better == RansacBetter(num_inliers, frame.best_inliers)
    IN  [it |-> frame.it + 1,
         best_inliers |-> IF better THEN num_inliers ELSE frame.best_inliers,
         best_translation |-> IF better THEN <<2 * d[1], 2 * d[2]>>
                              ELSE frame.best_translation,
         best_mask |-> IF better THEN mask ELSE frame.best_mask,
         sampled |-> frame.sampled \cup {drawn}]

RansacRefineSampled(frame, pts1, pts2) ==
    frame.best_translation

RansacRefineAll(frame, pts1, pts2) ==
    IF frame.best_inliers > 0
    THEN <<MedianTwice([j \in 1..Len(pts1) |-> Displacement(pts1, pts2, j)[1]]),
           MedianTwice([j \in 1..Len(pts1) |-> Displacement(pts1, pts2, j)[2]])>>
    ELSE frame.best_translation

\* lines 147-152: the median displacement of the inliers
RansacRefine(frame, pts1, pts2) ==
    IF frame.best_inliers > 0
    THEN LET ids == MaskIndices(frame.best_mask)
         IN  <<MedianTwice([j \in 1..Len(ids) |-> Displacement(pts1, pts2, ids[j])[1]]),
               MedianTwice([j \in 1..Len(ids) |-> Displacement(pts1, pts2, ids[j])[2]])>>
    ELSE frame.best_translation

RansacRatioOfInliers(best_inliers, n_points) ==
    IF best_inliers > 0 THEN <<best_inliers, best_inliers>> ELSE <<0, 1>>

\* line 154: best_inliers / n_points if n_points > 0 else 0.0, as a fraction
RansacRatio(best_inliers, n_points) ==
    IF n_points > 0 THEN <<best_inliers, n_points>> ELSE <<0, 1>>

\* lines 161-166
RansacResult(frame, pts1, pts2) ==
    [raised |-> "none",
     translation |-> RansacRefine(frame, pts1, pts2),
     inliers |-> frame.best_mask,
     num_inliers |-> frame.best_inliers,
     inlier_ratio |-> RansacRatio(frame.best_inliers, Len(pts1))]

\* np.random.randint(0, 0) of line 125
RansacNoPointsRaises ==
    [raised |-> "ValueError", translation |-> <<0, 0>>, inliers |-> <<>>,
     num_inliers |-> 0, inlier_ratio |-> <<0, 1>>]

\* lines 108-115: len(pts1) < 1
RansacNoPoints ==
    [raised |-> "none", translation |-> <<0, 0>>, inliers |-> <<>>,
     num_inliers |-> 0, inlier_ratio |-> <<0, 1>>]

----------------------------------------------------------------------------
(* Feature matcher: matcher.py, match_features.  A descriptor is an integer  *)
(* and the distance of two descriptors their absolute difference (the L2     *)
(* norm in one dimension); a descriptor set is <<>> (None) or <<sequence>>;  *)
(* the ratio threshold is a fraction <<num, den>>; indices are 0-based as in *)
(* cv2.DMatch.                                                               *)

DMatch(descriptors1, descriptors2, q, j) ==
    [queryIdx |-> q - 1, trainIdx |-> j - 1,
     distance |-> Abs(descriptors1[q] - descriptors2[j])]

\* the train indices by increasing distance to query q, the lower index first
\* among equals
NearestFirst(descriptors1, descriptors2, q) ==
    SortSeq([j \in 1..Len(descriptors2) |-> j],
            LAMBDA a, b :
                \/ Abs(descriptors1[q] - descriptors2[a]) < Abs(descriptors1[q] - descriptors2[b])
                \/ /\ Abs(descriptors1[q] - descriptors2[a]) = Abs(descriptors1[q] - descriptors2[b])
                   /\ a < b)

\* line 44: matcher.knnMatch(descriptors1, descriptors2, k=2), one list of at
\* most two DMatch per query descriptor
knnMatch(descriptors1, descriptors2) ==
    [q \in 1..Len(descriptors1) |->
        LET order == NearestFirst(descriptors1, descriptors2, q)
        IN  [i \in 1..Min2(2, Len(order)) |->
                DMatch(descriptors1, descriptors2, q, order[i])]]

RatioTestLe(m, n, ratio_threshold) ==
    m.distance * ratio_threshold[2] <= ratio_threshold[1] * n.distance

\* line 51: m.distance < ratio_threshold * n.distance
RatioTest(m, n, ratio_threshold) ==
    m.distance * ratio_threshold[2] < ratio_threshold[1] * n.distance

\* lines 47-52: the loop over the match pairs
GoodMatches(matches, ratio_threshold) ==
    LET kept == SelectSeq(matches,
                          LAMBDA match_pair :
                              /\ Len(match_pair) = 2
                              /\ RatioTest(match_pair[1], match_pair[2], ratio_threshold))
    IN  [i \in 1..Len(kept) |-> kept[i][1]]

match_features(descriptors1, descriptors2, ratio_threshold) ==
    IF descriptors1 = <<>> \/ descriptors2 = <<>>
    THEN <<>>
    ELSE GoodMatches(knnMatch(descriptors1[1], descriptors2[1]), ratio_threshold)

----------------------------------------------------------------------------
(* Cylindrical projector: cylindrical.py, warp_cylindrical.  The focal length *)
(* is a whole number of pixels and theta a multiple of 1/4 radian.  A real    *)
(* quantity is an interval <<lo, hi>> of integers that encloses it; source    *)
(* coordinates are in units of 1/2000000 pixel.                               *)

\* 1/cos(k/4) and tan(k/4) for k = 0..4, as <<floor, ceiling>> of 10^6 times
\* the value
SecantTable ==
    <<(<<1000000, 1000000>>), <<1032085, 1032086>>, <<1139493, 1139494>>,
      <<1366701, 1366702>>, <<1850815, 1850816>>>>

TangentTable ==
    <<(<<0, 0>>), <<255341, 255342>>, <<546302, 546303>>,
      <<931596, 931597>>, <<1557407, 1557408>>>>

\* theta = (y_cyl - yc) / focal_length with yc = h / 2.0, in quarter radians
AngleIndex(y_cyl, h, focal) ==
    (2 * (2 * y_cyl - h)) \div focal

\* the angles of every row are in the tables
AnglesTabulated(h, focal) ==
    \A y_cyl \in 0..(h - 1) :
        /\ (2 * (2 * y_cyl - h)) % focal = 0
        /\ Abs(AngleIndex(y_cyl, h, focal)) < Len(SecantTable)

ScaleInterval(n, iv) ==
    IF n >= 0 THEN <<n * iv[1], n * iv[2]>> ELSE <<n * iv[2], n * iv[1]>>

\* w_normalized = (x_cyl - xc) / focal_length with xc = w / 2.0;
\* x_planar = focal_length * w_normalized / np.cos(theta) + xc
x_planar(x_cyl, y_cyl, h, w, focal) ==
    LET k == Abs(AngleIndex(y_cyl, h, focal))
        s == ScaleInterval(2 * x_cyl - w, SecantTable[k + 1])
    IN  <<s[1] + w * 1000000, s[2] + w * 1000000>>

\* y_planar = focal_length * np.tan(theta) + yc
y_planar(y_cyl, h, focal) ==
    LET k == AngleIndex(y_cyl, h, focal)
        t == TangentTable[Abs(k) + 1]
        s == ScaleInterval(IF k >= 0 THEN 2 * focal ELSE -(2 * focal), t)
    IN  <<s[1] + h * 1000000, s[2] + h * 1000000>>

\* cv2.remap splits a map value into a whole pixel and a fraction of
\* 1/INTER_TAB_SIZE pixel
INTER_TAB_SIZE ==
    32

\* the nearest integer to a / d, d > 0
RoundDiv(a, d) ==
    (2 * a + d) \div (2 * d)

\* the values cvRound(map * INTER_TAB_SIZE) can take: the map is stored as
\* float32, which moves a coordinate of this size by less than 1/1000000 pixel
Quantized(iv) ==
    RoundDiv((iv[1] - 2) * INTER_TAB_SIZE, 2000000)
        .. RoundDiv((iv[2] + 2) * INTER_TAB_SIZE, 2000000)

\* the quantized source coordinates of every destination pixel do not depend
\* on the rounding of the map
MapDetermined(h, w, focal) ==
    \A cell \in Cells(h, w) :
        /\ Cardinality(Quantized(x_planar(cell[2], cell[1], h, w, focal))) = 1
        /\ Cardinality(Quantized(y_planar(cell[1], h, focal))) = 1

map_x(x_cyl, y_cyl, h, w, focal) ==
    CHOOSE sx \in Quantized(x_planar(x_cyl, y_cyl, h, w, focal)) : TRUE

map_y(y_cyl, h, focal) ==
    CHOOSE sy \in Quantized(y_planar(y_cyl, h, focal)) : TRUE

\* borderMode=cv2.BORDER_CONSTANT with the default border value 0
BorderPixel(image, row, col) ==
    IF row \in 0..(image.h - 1) /\ col \in 0..(image.w - 1)
    THEN image.pix[<<row, col>>]
    ELSE <<0, 0, 0>>

\* interpolation=cv2.INTER_LINEAR: the four neighbours of the source position,
\* each the border value where it lies outside the image, weighted in fixed
\* point and rounded
RemapPixel(image, sx, sy) ==
    LET ix == sx \div INTER_TAB_SIZE
        fx == sx % INTER_TAB_SIZE
        iy == sy \div INTER_TAB_SIZE
        fy == sy % INTER_TAB_SIZE
        gx == INTER_TAB_SIZE - fx
        gy == INTER_TAB_SIZE - fy
        p00 == BorderPixel(image, iy, ix)
        p01 == BorderPixel(image, iy, ix + 1)
        p10 == BorderPixel(image, iy + 1, ix)
        p11 == BorderPixel(image, iy + 1, ix + 1)
        one == INTER_TAB_SIZE * INTER_TAB_SIZE
    IN  [c \in 1..3 |->
            (gx * gy * p00[c] + fx * gy * p01[c] + gx * fy * p10[c]
                + fx * fy * p11[c] + (one \div 2)) \div one]

warp_cylindrical(image, focal) ==
    [h |-> image.h, w |-> image.w,
     pix |-> [cell \in Cells(image.h, image.w) |->
                RemapPixel(image,
                           map_x(cell[2], cell[1], image.h, image.w, focal),
                           map_y(cell[1], image.h, focal))]]

----------------------------------------------------------------------------
(* The pipeline: pipeline.py, PanoramaStitcher.run and its stages *)

MaxImages ==
    3

\* DEFAULT_FOCAL_LENGTH of config.py, in pixels
DefaultFocalLength ==
    500

\* --focal-length: <<>> is None
CliFocalLengths ==
    {<<>>, <<0>>, <<-500>>, <<500>>}

FocalLengthSources ==
    {"exif", "config"}

\* what estimate_focal_length_from_exif returns for the first image: <<>> is None
ExifEstimates ==
    {<<>>, <<400>>}

\* image.shape[1] of the input photographs, in pixels
FrameWidths ==
    {640}

\* BLEND_METHOD comes from the environment unchecked (argparse checks no default)
ConfiguredBlendMethods ==
    BlendMethods \cup {"bogus"}

\* len(matches) of a pair, as the external matcher and the ratio test give it
MatchCounts ==
    {3, 40}

\* translations the estimator returns, in units of 1/PxUnit pixel
PairTranslations ==
    {<<0, 0>>, <<1, -4>>}

InlierCounts ==
    {9, 10, 12}

\* ransac.py lines 161-166: the record estimate_pure_translation_ransac returns
\* for n_points pairs (the inlier mask, used only for plots, is left out)
RansacOutcomes(n_points) ==
    {[translation |-> t, num_inliers |-> k, inlier_ratio |-> <<k, n_points>>] :
        t \in PairTranslations, k \in {j \in InlierCounts : j <= n_points}}

\* len(matches) between the first and the last image.  With two images they
\* are the adjacent pair (0, 1): the same descriptors are matched again.
FirstLastMatchCounts ==
    IF Len(features) = 2 /\ Len(translations) = 1
    THEN {translations[1].num_matches}
    ELSE MatchCounts

\* The first/last estimate of step 6.  With one image the first and the last
\* image are the same: every match pairs a keypoint with itself, so every
\* displacement pts2 - pts1 is zero.
FirstLastOutcomes(n_images, n_points) ==
    {r \in RansacOutcomes(n_points) : n_images = 1 => r.translation = <<0, 0>>}

Truthy(opt) ==
    opt # <<>> /\ opt[1] # 0

\* float to Num, for a length in units of 1/PxUnit pixel
NumOfPx(v) ==
    NRat(v, PxUnit)

NumTranslation(r) ==
    [r EXCEPT !.translation = <<NumOfPx(r.translation[1]), NumOfPx(r.translation[2])>>]

InitPipeline ==
    /\ config \in [focal_length : CliFocalLengths,
                   focal_length_source : FocalLengthSources,
                   enable_drift_correction : BOOLEAN,
                   blend_method : ConfiguredBlendMethods]
    /\ env \in {e \in [dir_exists : BOOLEAN, files : 0..MaxImages,
                       readable : 0..MaxImages, exif_focal : ExifEstimates,
                       width : FrameWidths] :
                  /\ e.readable <= e.files
                  /\ (~e.dir_exists => e.files = 0 /\ e.exif_focal = <<>>)
                  /\ (e.readable = 0 => e.exif_focal = <<>>)}
    /\ pc = "load"
    /\ idx = 0
    /\ images_data = <<>>
    /\ focal_length = <<>>
    /\ warped_images = <<>>
    /\ features = <<>>
    /\ translations = <<>>
    /\ drift_record = <<>>
    /\ estimator_log = <<>>
    /\ panorama = <<>>
    /\ error = "none"
    /\ stages = {}
    /\ u_in = [fn |-> "none"]
    /\ u_frame = <<>>
    /\ u_out = <<>>

Raise(e) ==
    /\ pc' = "failed"
    /\ error' = e
    /\ stages' = stages \cup {pc}

Goto(next) ==
    /\ pc' = next
    /\ error' = error
    /\ stages' = stages \cup {pc}

\* image_io.py load_images: the exception it raises, "none" when it returns
LoadError ==
    IF ~env.dir_exists THEN "FileNotFoundError"
    ELSE IF env.files = 0 THEN "ValueError"
    ELSE "none"

\* pipeline.py lines 136-162: the focal length of the run, <<>> when
\* self.images_data[0] raises IndexError
DetermineFocalLength ==
    IF Truthy(config.focal_length) THEN <<NInt(config.focal_length[1])>>
    ELSE IF config.focal_length_source = "exif"
    THEN IF env.readable = 0 THEN <<>>
         ELSE IF Truthy(env.exif_focal) THEN <<NInt(env.exif_focal[1])>>
         ELSE <<NInt(DefaultFocalLength)>>
    ELSE <<NInt(DefaultFocalLength)>>

\* Step 1
LoadImages ==
    /\ pc = "load"
    /\ IF LoadError # "none"
       THEN /\ Raise(LoadError)
            /\ UNCHANGED <<images_data, focal_length>>
       ELSE /\ images_data' = [i \in 1..env.readable |-> i]
            /\ IF DetermineFocalLength = <<>>
               THEN /\ Raise("IndexError")
                    /\ UNCHANGED focal_length
               ELSE /\ focal_length' = DetermineFocalLength
                    /\ Goto("warp")
    /\ UNCHANGED <<config, env, idx, warped_images, features, translations,
                   drift_record, estimator_log, panorama, unitVars>>

\* Step 2, one iteration: warped = warp_cylindrical(img, self.focal_length)
WarpImage ==
    /\ pc = "warp"
    /\ idx < Len(images_data)
    /\ warped_images' = Append(warped_images,
                               [src |-> images_data[idx + 1], focal |-> focal_length[1],
                                width |-> env.width])
    /\ idx' = idx + 1
    /\ Goto("warp")
    /\ UNCHANGED <<config, env, images_data, focal_length, features, translations,
                   drift_record, estimator_log, panorama, unitVars>>

WarpDone ==
    /\ pc = "warp"
    /\ idx >= Len(images_data)
    /\ idx' = 0
    /\ Goto("extract")
    /\ UNCHANGED <<config, env, images_data, focal_length, warped_images, features,
                   translations, drift_record, estimator_log, panorama, unitVars>>

\* Step 3, one iteration: self.features.append((kp, desc))
ExtractFeatures ==
    /\ pc = "extract"
    /\ idx < Len(warped_images)
    /\ features' = Append(features, [image |-> idx])
    /\ idx' = idx + 1
    /\ Goto("extract")
    /\ UNCHANGED <<config, env, images_data, focal_length, warped_images, translations,
                   drift_record, estimator_log, panorama, unitVars>>

ExtractDone ==
    /\ pc = "extract"
    /\ idx >= Len(warped_images)
    /\ idx' = 0
    /\ Goto("match")
    /\ UNCHANGED <<config, env, images_data, focal_length, warped_images, features,
                   translations, drift_record, estimator_log, panorama, unitVars>>

\* Step 4 with too few matches treated as fatal
MatchPairInsufficientFatal ==
    /\ pc = "match"
    /\ idx < Len(features) - 1
    /\ \E n \in MatchCounts : n < 4
    /\ Raise("ValueError")
    /\ UNCHANGED <<config, env, idx, images_data, focal_length, warped_images, features,
                   translations, drift_record, estimator_log, panorama, unitVars>>

\* Step 4, one iteration with len(matches) < 4: zero translation, continue
MatchPairInsufficient ==
    /\ pc = "match"
    /\ idx < Len(features) - 1
    /\ \E n \in MatchCounts :
         /\ n < 4
         /\ translations' = Append(translations,
                [pair |-> <<idx, idx + 1>>, translation |-> <<0, 0>>,
                 num_matches |-> n, num_inliers |-> 0, inlier_ratio |-> <<0, 1>>])
    /\ idx' = idx + 1
    /\ Goto("match")
    /\ UNCHANGED <<config, env, images_data, focal_length, warped_images, features,
                   drift_record, estimator_log, panorama, unitVars>>

\* Step 4, one iteration with len(matches) >= 4: the estimator's result is recorded
MatchPairEstimate ==
    /\ pc = "match"
    /\ idx < Len(features) - 1
    /\ \E n \in MatchCounts :
         /\ ~(n < 4)
         /\ \E result \in RansacOutcomes(n) :
              /\ translations' = Append(translations,
                    [pair |-> <<idx, idx + 1>>, translation |-> result.translation,
                     num_matches |-> n, num_inliers |-> result.num_inliers,
                     inlier_ratio |-> result.inlier_ratio])
              /\ estimator_log' = Append(estimator_log,
                    [purpose |-> "adjacent", pair |-> <<idx, idx + 1>>,
                     n_points |-> n, result |-> result])
    /\ idx' = idx + 1
    /\ Goto("match")
    /\ UNCHANGED <<config, env, images_data, focal_length, warped_images, features,
                   drift_record, panorama, unitVars>>

\* Step 4 left before the loop over the pairs is over
MatchDoneEarly ==
    /\ pc = "match"
    /\ idx' = 0
    /\ Goto("save")
    /\ UNCHANGED <<config, env, images_data, focal_length, warped_images, features,
                   translations, drift_record, estimator_log, panorama, unitVars>>

MatchDone ==
    /\ pc = "match"
    /\ idx >= Len(features) - 1
    /\ idx' = 0
    /\ Goto("save")
    /\ UNCHANGED <<config, env, images_data, focal_length, warped_images, features,
                   translations, drift_record, estimator_log, panorama, unitVars>>

\* Step 5, and the test of run() that guards step 6
SaveTranslations ==
    /\ pc = "save"
    /\ Goto(IF config.enable_drift_correction THEN "drift" ELSE "blend")
    /\ UNCHANGED <<config, env, idx, images_data, focal_length, warped_images, features,
                   translations, drift_record, estimator_log, panorama, unitVars>>

\* Step 6 with no image: self.features[0] raises
DriftIndexError ==
    /\ pc = "drift"
    /\ Len(features) = 0
    /\ Raise("IndexError")
    /\ UNCHANGED <<config, env, idx, images_data, focal_length, warped_images, features,
                   translations, drift_record, estimator_log, panorama, unitVars>>

\* Step 6, len(matches) < 4 between the first and the last image: return
DriftSkipFewMatches ==
    /\ pc = "drift"
    /\ Len(features) > 0
    /\ \E n \in FirstLastMatchCounts : n < 4
    /\ Goto("blend")
    /\ UNCHANGED <<config, env, idx, images_data, focal_length, warped_images, features,
                   translations, drift_record, estimator_log, panorama, unitVars>>

\* Step 6 with the gate left out: the correction is applied to every estimate
DriftEstimateNoGate ==
    /\ pc = "drift"
    /\ Len(features) > 0
    /\ \E n \in FirstLastMatchCounts :
         /\ ~(n < 4)
         /\ \E first_last_result \in FirstLastOutcomes(Len(features), n) :
              /\ estimator_log' = Append(estimator_log,
                    [purpose |-> "first_last", pair |-> <<0, Len(features) - 1>>,
                     n_points |-> n, result |-> first_last_result])
              /\ LET correction ==
                         correct_drift([i \in 1..Len(translations) |->
                                            NumTranslation(translations[i])],
                                       NumTranslation(first_last_result),
                                       focal_length[1], warped_images[1].width)
                 IN  /\ drift_record' = <<correction>>
                     /\ focal_length' = <<correction.corrected_focal_length>>
    /\ Goto("blend")
    /\ UNCHANGED <<config, env, idx, images_data, warped_images, features,
                   translations, panorama, unitVars>>

\* Step 6 repeated for as long as the gate lets a correction through
DriftEstimateIterated ==
    /\ pc = "drift"
    /\ Len(features) > 0
    /\ \E n \in FirstLastMatchCounts :
         /\ ~(n < 4)
         /\ \E first_last_result \in FirstLastOutcomes(Len(features), n) :
              /\ estimator_log' = Append(estimator_log,
                    [purpose |-> "first_last", pair |-> <<0, Len(features) - 1>>,
                     n_points |-> n, result |-> first_last_result])
              /\ IF should_apply_drift_correction(first_last_result)
                 THEN LET correction ==
                              correct_drift([i \in 1..Len(translations) |->
                                                 NumTranslation(translations[i])],
                                            NumTranslation(first_last_result),
                                            focal_length[1], warped_images[1].width)
                      IN  /\ drift_record' = <<correction>>
                          /\ focal_length' = <<correction.corrected_focal_length>>
                          /\ Goto("drift")
                 ELSE /\ UNCHANGED <<drift_record, focal_length>>
                      /\ Goto("blend")
    /\ UNCHANGED <<config, env, idx, images_data, warped_images, features,
                   translations, panorama, unitVars>>

\* Step 6, the first/last estimate and the gate
DriftEstimate ==
    /\ pc = "drift"
    /\ Len(features) > 0
    /\ \E n \in FirstLastMatchCounts :
         /\ ~(n < 4)
         /\ \E first_last_result \in FirstLastOutcomes(Len(features), n) :
              /\ estimator_log' = Append(estimator_log,
                    [purpose |-> "first_last", pair |-> <<0, Len(features) - 1>>,
                     n_points |-> n, result |-> first_last_result])
              /\ IF should_apply_drift_correction(first_last_result)
                 THEN LET correction ==
                              correct_drift([i \in 1..Len(translations) |->
                                                 NumTranslation(translations[i])],
                                            NumTranslation(first_last_result),
                                            focal_length[1], warped_images[1].width)
                      IN  /\ drift_record' = <<correction>>
                          /\ focal_length' = <<correction.corrected_focal_length>>
                 ELSE UNCHANGED <<drift_record, focal_length>>
    /\ Goto("blend")
    /\ UNCHANGED <<config, env, idx, images_data, warped_images, features,
                   translations, panorama, unitVars>>

\* Step 7: the compositor consumes self.warped_images as they are
BlendImages ==
    /\ pc = "blend"
    /\ LET pairwise_t == [i \in 1..Len(translations) |-> translations[i].translation]
           cumulative_t == compute_cumulative_translations(pairwise_t)
           err == BlendError(warped_images, config.blend_method)
       IN  IF err # "none"
           THEN /\ Raise(err)
                /\ UNCHANGED panorama
           ELSE /\ panorama' = <<[images |-> warped_images,
                                  placements |-> cumulative_t,
                                  method |-> config.blend_method]>>
                /\ Goto("crop")
    /\ UNCHANGED <<config, env, idx, images_data, focal_length, warped_images, features,
                   translations, drift_record, estimator_log, unitVars>>

\* Step 8
CropAndSave ==
    /\ pc = "crop"
    /\ Goto("done")
    /\ UNCHANGED <<config, env, idx, images_data, focal_length, warped_images, features,
                   translations, drift_record, estimator_log, panorama, unitVars>>

NextPipeline ==
    \/ LoadImages
    \/ WarpImage
    \/ WarpDone
    \/ ExtractFeatures
    \/ ExtractDone
    \/ MatchPairInsufficient
    \/ MatchPairEstimate
    \/ MatchDone
    \/ SaveTranslations
    \/ DriftIndexError
    \/ DriftSkipFewMatches
    \/ DriftEstimate
    \/ BlendImages
    \/ CropAndSave

Spec ==
    InitPipeline /\ [][NextPipeline]_vars

----------------------------------------------------------------------------
(* Claims about the pipeline, checked under Spec *)

Last(seq) ==
    seq[Len(seq)]

\* the run computed a corrected focal length and replaced self.focal_length
DriftApplied ==
    drift_record # <<>>

\* C1: in a run where drift correction is applied, the compositor consumes
\* projections made with the final (corrected) focal length, never projections
\* made with the original one.
C1_CompositorUsesFinalFocalLength ==
    (panorama # <<>> /\ DriftApplied)
        => \A i \in 1..Len(panorama[1].images) :
               panorama[1].images[i].focal = focal_length[1]

\* the step appended, for the pair (idx, idx+1), a record with fewer than 4 matches
InsufficientPairStep ==
    /\ pc = "match"
    /\ Len(translations') = Len(translations) + 1
    /\ Last(translations').num_matches < 4

\* C6: an adjacent pair with fewer than 4 filtered correspondences never aborts
\* the run: it gets a record with translation (0,0), 0 inliers and ratio 0.0, the
\* estimator is not invoked for it, and the loop goes on with the next pair.
C6_InsufficientPairDegrades ==
    [][/\ pc = "match" => pc' # "failed"
       /\ InsufficientPairStep =>
            /\ Last(translations').pair = <<idx, idx + 1>>
            /\ Last(translations').translation = <<0, 0>>
            /\ Last(translations').num_inliers = 0
            /\ Last(translations').inlier_ratio[1] = 0
            /\ estimator_log' = estimator_log
            /\ pc' = "match" /\ error' = "none" /\ idx' = idx + 1]_vars

\* a pair that degraded, followed by the record of the next pair
C6_Witness ==
    /\ Len(translations) >= 2
    /\ translations[1].num_matches < 4
    /\ translations[1].translation = <<0, 0>>
    /\ translations[2].pair = <<1, 2>>

FirstLastEstimates ==
    {k \in 1..Len(estimator_log) : estimator_log[k].purpose = "first_last"}

\* the first/last pair had too few correspondences (no estimate was made), or
\* its estimate did not pass the gate: 10 inliers and a ratio of 3/10
DriftSkipped ==
    \A k \in FirstLastEstimates :
        \/ estimator_log[k].result.num_inliers < 10
        \/ 10 * estimator_log[k].result.inlier_ratio[1]
               < 3 * estimator_log[k].result.inlier_ratio[2]

\* C7: when the first/last pair has too few correspondences or its estimate
\* fails the gate, drift correction is skipped without raising: the focal length
\* is unchanged, no drift-correction record is written, and the run goes on to
\* compositing and, from there, to cropping.
C7_SkippedDriftLeavesRunIntact ==
    [][/\ (pc = "drift" /\ Len(features) > 0 /\ DriftSkipped') =>
            /\ pc' = "blend" /\ error' = "none"
            /\ focal_length' = focal_length
            /\ drift_record' = <<>>
       /\ (pc = "blend" /\ DriftSkipped /\ config.blend_method \in BlendMethods
             /\ Len(warped_images) > 0) =>
            /\ pc' = "crop" /\ error' = "none"
            /\ focal_length' = DetermineFocalLength
            /\ drift_record' = <<>>
       /\ (pc = "crop" /\ DriftSkipped) =>
            /\ pc' = "done" /\ error' = "none"
            /\ focal_length' = DetermineFocalLength
            /\ drift_record' = <<>>]_vars

\* a run whose first/last estimate failed the gate and that reached cropping
C7_Witness ==
    /\ pc = "done"
    /\ config.enable_drift_correction
    /\ FirstLastEstimates # {}
    /\ DriftSkipped
    /\ drift_record = <<>>
    /\ focal_length = DetermineFocalLength

InvalidConfiguration ==
    \/ config.blend_method \notin BlendMethods
    \/ (config.focal_length # <<>> /\ config.focal_length[1] <= 0)
    \/ (env.dir_exists /\ env.readable = 0)

ProcessingStages ==
    {"warp", "extract", "match", "drift", "blend"}

\* C8: an invalid blend method name, a non-positive focal length or an empty
\* image sequence is a fatal configuration error, reported before any of the
\* stages warping, feature extraction, matching, drift correction, blending runs.
C8_ConfigurationErrorBeforeAnyStage ==
    InvalidConfiguration =>
        /\ stages \cap ProcessingStages = {}
        /\ pc # "done"

\* the stages of run(), in the order of its calls
StageOrder ==
    <<"load", "warp", "extract", "match", "save", "drift", "blend", "crop">>

StageRank(stage) ==
    CHOOSE k \in 1..Len(StageOrder) : StageOrder[k] = stage

\* the stage is running or has run
Started(stage) ==
    pc = stage \/ stage \in stages

\* the stage has run and the run is past it
Completed(stage) ==
    /\ stage \in stages
    /\ pc # stage

AdjacentPairs ==
    IF Len(images_data) > 0 THEN Len(images_data) - 1 ELSE 0

\* C19: the stages run strictly in the order load, project, detect features,
\* match/estimate every adjacent pair, persist translations, drift correction,
\* composite, crop (drift correction only when enabled); each stage completes
\* for all images/pairs before the next starts, and the Drift Corrector runs
\* only after the estimates of all adjacent pairs are complete.
C19_StagesStrictlySequential ==
    /\ pc \in {StageOrder[k] : k \in 1..Len(StageOrder)} =>
          \A stage \in stages : StageRank(stage) <= StageRank(pc)
    /\ \A k \in 1..Len(StageOrder) :
          Started(StageOrder[k]) =>
             \A j \in 1..(k - 1) : StageOrder[j] # "drift" => Completed(StageOrder[j])
    /\ Started("drift") => config.enable_drift_correction
    /\ (Started("blend") /\ config.enable_drift_correction) => Completed("drift")
    /\ pc = "done" => Completed("crop")
    /\ Started("extract") => Len(warped_images) = Len(images_data)
    /\ Started("match") => Len(features) = Len(images_data)
    /\ Started("save") =>
          /\ Len(translations) = AdjacentPairs
          /\ \A i \in 1..Len(translations) : translations[i].pair = <<i - 1, i>>
    /\ ~Started("extract") => features = <<>>
    /\ ~Started("match") => translations = <<>> /\ estimator_log = <<>>
    /\ ~Started("drift") => drift_record = <<>> /\ FirstLastEstimates = {}
    /\ ~Started("blend") => panorama = <<>>
    /\ \A k \in FirstLastEstimates :
          /\ k = Len(estimator_log)
          /\ Len(translations) = AdjacentPairs
          /\ \A j \in 1..(k - 1) : estimator_log[j].purpose = "adjacent"

\* a finished run over three images with drift correction: two adjacent
\* estimates, then the first/last estimate, then the panorama
C19_Witness ==
    /\ pc = "done"
    /\ Len(images_data) = 3
    /\ Len(estimator_log) = 3
    /\ estimator_log[3].purpose = "first_last"
    /\ DriftApplied
    /\ panorama # <<>>
    /\ stages = {StageOrder[k] : k \in 1..Len(StageOrder)}

\* a > 0 for a Num a, decided with 3 < pi < 22/7 on pi * a = m + z*pi + p*pi^2:
\* exact when a is rational, sufficient otherwise
NPositive(a) ==
    49 * a.m
      + (IF a.z >= 0 THEN 147 ELSE 154) * a.z
      + (IF a.p >= 0 THEN 441 ELSE 484) * a.p > 0

\* C20: in every reachable state of a run the camera focal length is > 0,
\* also after the Drift Corrector has replaced it.
C20_FocalLengthPositive ==
    focal_length # <<>> => NPositive(focal_length[1])

\* C21: within one run the drift correction is computed and the focal length
\* replaced at most once: there is never a second first/last estimate, and
\* once the correction is recorded neither it nor the focal length changes.
C21_DriftCorrectionAtMostOnce ==
    [][/\ Cardinality(FirstLastEstimates') <= 1
       /\ (focal_length # <<>> /\ focal_length' # focal_length) =>
             /\ pc = "drift"
             /\ drift_record = <<>> /\ drift_record' # <<>>
             /\ focal_length = DetermineFocalLength
       /\ drift_record' # drift_record => (pc = "drift" /\ drift_record = <<>>)
       /\ drift_record # <<>> => focal_length' = focal_length]_vars

\* a finished run whose focal length is the corrected one, after a single
\* first/last estimate
C21_Witness ==
    /\ pc = "done"
    /\ Cardinality(FirstLastEstimates) = 1
    /\ drift_record # <<>>
    /\ focal_length = <<drift_record[1].corrected_focal_length>>
    /\ focal_length # DetermineFocalLength

\* the placements handed to blend_images: one per image if none is dropped
PlacementsAtBlend ==
    compute_cumulative_translations(
        [i \in 1..Len(translations) |-> translations[i].translation])

\* C26: at the start of compositing in a run with n loaded images, the
\* translation list has exactly n-1 records whose pairs are [0,1], [1,2], ...,
\* [n-2,n-1] in order, so the placement list has exactly n entries and zipping
\* images and placements drops no image.
C26_OnePlacementPerImage ==
    pc = "blend" =>
        LET n == Len(images_data)
        IN  /\ Len(translations) = n - 1
            /\ \A i \in 1..Len(translations) : translations[i].pair = <<i - 1, i>>
            /\ Len(warped_images) = n
            /\ Len(PlacementsAtBlend) = n
            /\ ZipLen(warped_images, PlacementsAtBlend) = n

----------------------------------------------------------------------------
(* The pure functions, each applied once to arguments drawn from bounded sets *)

\* no pipeline run: the stages are idle while a function is applied
IdlePipeline ==
    /\ config = [focal_length |-> <<>>, focal_length_source |-> "config",
                 enable_drift_correction |-> FALSE, blend_method |-> "average"]
    /\ env = [dir_exists |-> FALSE, files |-> 0, readable |-> 0,
              exif_focal |-> <<>>, width |-> 640]
    /\ pc = "idle"
    /\ idx = 0
    /\ images_data = <<>>
    /\ focal_length = <<>>
    /\ warped_images = <<>>
    /\ features = <<>>
    /\ translations = <<>>
    /\ drift_record = <<>>
    /\ estimator_log = <<>>
    /\ panorama = <<>>
    /\ error = "none"
    /\ stages = {}

SeqsUpTo(S, n) ==
    UNION {[1..k -> S] : k \in 0..n}

(* compute_cumulative_translations *)

MaxPairs ==
    3

\* pairwise (dx, dy) in pixels
AccumPairsPx ==
    {<<0, 0>>, <<0, -10>>, <<3, -10>>, <<-2, 7>>}

AccumPairs ==
    {<<t[1] * PxUnit, t[2] * PxUnit>> : t \in AccumPairsPx} \cup {<<1, -1>>}

InitAccum ==
    /\ IdlePipeline
    /\ u_in \in {[fn |-> "compute_cumulative_translations", pairwise |-> ps] :
                    ps \in SeqsUpTo(AccumPairs, MaxPairs)}
    /\ u_frame = <<>>
    /\ u_out = <<>>

CallAccumulate ==
    /\ u_in.fn = "compute_cumulative_translations"
    /\ u_out = <<>>
    /\ u_out' = <<compute_cumulative_translations(u_in.pairwise)>>
    /\ UNCHANGED <<pipeVars, u_in, u_frame>>

SpecAccum ==
    InitAccum /\ [][CallAccumulate]_vars

\* the chain of the accumulator test: three times (0, -10) pixels
ChainInput ==
    [i \in 1..3 |-> <<0, -10 * PxUnit>>]

ChainOutput ==
    <<(<<0, 0>>), <<0, 10 * PxUnit>>, <<0, 20 * PxUnit>>, <<0, 30 * PxUnit>>>>

\* C2: offset[i+1].y = offset[i].y - pairwise[i].dy for every i, every
\* offset[i].x is 0 (the horizontal component is discarded), and
\* [(0,-10),(0,-10),(0,-10)] gives exactly [(0,0),(0,10),(0,20),(0,30)].
C2_VerticalNegatedHorizontalDiscarded ==
    u_out # <<>> =>
        LET offset == u_out[1]
            pairwise == u_in.pairwise
        IN  /\ \A i \in 1..Len(pairwise) :
                 /\ i + 1 \in DOMAIN offset
                 /\ offset[i + 1][2] = offset[i][2] - pairwise[i][2]
            /\ \A i \in DOMAIN offset : offset[i][1] = 0
            /\ (pairwise = ChainInput => offset = ChainOutput)

C2_Witness ==
    /\ u_out # <<>>
    /\ u_in.pairwise = ChainInput
    /\ u_out[1] = ChainOutput

\* C3: for every input list, the empty list included, the result has exactly
\* one more element than the input and its first element is (0,0).
C3_OneMoreElementFirstAtOrigin ==
    u_out # <<>> =>
        /\ Len(u_out[1]) = Len(u_in.pairwise) + 1
        /\ u_out[1][1] = <<0, 0>>

C3_Witness ==
    /\ u_out # <<>>
    /\ u_in.pairwise = <<>>
    /\ u_out[1] = <<(<<0, 0>>)>>

(* should_apply_drift_correction and correct_drift *)

MaxInliers ==
    12

MaxRatioDen ==
    10

MaxDy ==
    3

MaxDriftPairs ==
    2

MatchQualities ==
    {[num_inliers |-> k, inlier_ratio |-> <<a, b>>] :
        k \in 0..MaxInliers, a \in 0..MaxRatioDen, b \in 1..MaxRatioDen}

\* first/last dy: whole pixels, and 500*(pi/6) of the closed-form test
DriftDys ==
    {NInt(k) : k \in (-MaxDy)..MaxDy} \cup {NPiMul(250, 3)}

DriftDxs ==
    {NInt(0), NInt(7)}

DriftFocals ==
    {NInt(500), NInt(3)}

DriftPairwise ==
    {[translation |-> <<NInt(0), NInt(0)>>], [translation |-> <<NInt(2), NInt(-5)>>]}

InitDrift ==
    /\ IdlePipeline
    /\ u_in \in
         {[fn |-> "should_apply_drift_correction", quality |-> q] :
             q \in {m \in MatchQualities : m.inlier_ratio[1] <= m.inlier_ratio[2]}}
         \cup
         {[fn |-> "correct_drift", translations |-> ts,
           first_last |-> [translation |-> <<dx, dy>>],
           focal_length |-> f, image_width |-> w] :
             ts \in SeqsUpTo(DriftPairwise, MaxDriftPairs),
             dx \in DriftDxs, dy \in DriftDys, f \in DriftFocals, w \in {1, 640}}
    /\ u_frame = <<>>
    /\ u_out = <<>>

CallShouldApply ==
    /\ u_in.fn = "should_apply_drift_correction"
    /\ u_out = <<>>
    /\ u_out' = <<[value |-> should_apply_drift_correction(u_in.quality)]>>
    /\ UNCHANGED <<pipeVars, u_in, u_frame>>

CallCorrectDrift ==
    /\ u_in.fn = "correct_drift"
    /\ u_out = <<>>
    /\ u_out' = <<correct_drift(u_in.translations, u_in.first_last,
                                u_in.focal_length, u_in.image_width)>>
    /\ UNCHANGED <<pipeVars, u_in, u_frame>>

NextDrift ==
    \/ CallShouldApply
    \/ CallCorrectDrift

SpecDrift ==
    InitDrift /\ [][NextDrift]_vars

\* C4: should_apply_drift_correction is true exactly when num_inliers >= 10 and
\* inlier_ratio >= 0.3; with 5 inliers it is false for every ratio, and the
\* boundary values 10 and 0.3 are accepted.
C4_GateIffTenInliersAndRatio ==
    (u_in.fn = "should_apply_drift_correction" /\ u_out # <<>>) =>
        LET q == u_in.quality
        IN  /\ u_out[1].value <=>
                 (q.num_inliers >= 10 /\ 10 * q.inlier_ratio[1] >= 3 * q.inlier_ratio[2])
            /\ (q.num_inliers = 5 => ~u_out[1].value)
            /\ ((q.num_inliers = 10 /\ q.inlier_ratio = <<3, 10>>) => u_out[1].value)

C4_Witness ==
    /\ u_in.fn = "should_apply_drift_correction"
    /\ u_out # <<>>
    /\ u_in.quality.num_inliers = 10
    /\ u_in.quality.inlier_ratio = <<3, 10>>
    /\ u_out[1].value

\* C5: gap angle = first_last.dy / f and corrected focal length
\* f' = f*(1 - gap/(2*pi)) = f - dy/(2*pi), whatever the pairwise translations,
\* the first/last dx and the image width are; f = 500 and dy = 500*(pi/6) give
\* 500*(11/12).
C5_ClosedFormCorrection ==
    (u_in.fn = "correct_drift" /\ u_out # <<>>) =>
        LET f == u_in.focal_length
            dy == u_in.first_last.translation[2]
        IN  /\ u_out[1].gap_angle = NDiv(dy, f)
            /\ u_out[1].corrected_focal_length = NSub(f, NDiv(dy, NPiMul(2, 1)))
            /\ u_out[1].corrected_focal_length # NUndef
            /\ ((f = NInt(500) /\ dy = NPiMul(500, 6))
                  => u_out[1].corrected_focal_length = NRat(500 * 11, 12))

C5_Witness ==
    /\ u_in.fn = "correct_drift"
    /\ u_out # <<>>
    /\ u_in.focal_length = NInt(500)
    /\ u_in.first_last.translation[2] = NPiMul(500, 6)
    /\ u_in.first_last.translation[1] # NZero
    /\ Len(u_in.translations) > 0
    /\ u_out[1].corrected_focal_length = NRat(5500, 12)

(* blend_images / blend_average *)

MaxBlendImages ==
    2

\* BGR pixels: the sentinel, one with a single non-zero channel, two others
Palette ==
    <<(<<0, 0, 0>>), <<0, 0, 9>>, <<3, 4, 5>>, <<255, 254, 0>>>>

\* (height, width) of an input image; a width of 0 is an empty array
BlendShapes ==
    {<<2, 2>>, <<1, 2>>, <<2, 0>>}

BlendSeeds ==
    {0, 1, 3}

\* placements (tx, ty) in units of 1/PxUnit pixel
BlendOffsets ==
    {<<0, 0>>, <<0, 3>>, <<0, -2>>, <<1, 4>>}

ImageOf(shape, seed) ==
    [h |-> shape[1], w |-> shape[2],
     pix |-> [cell \in Cells(shape[1], shape[2]) |->
                Palette[((seed + cell[1] + 2 * cell[2]) % Len(Palette)) + 1]]]

BlendImageInputs ==
    {ImageOf(shape, seed) : shape \in BlendShapes, seed \in BlendSeeds}

InitBlend ==
    /\ IdlePipeline
    /\ u_in \in {[fn |-> "blend_images", images |-> imgs, translations |-> ts,
                  method |-> "average"] :
                    imgs \in SeqsUpTo(BlendImageInputs, MaxBlendImages) \ {<<>>},
                    ts \in SeqsUpTo(BlendOffsets, MaxBlendImages) \ {<<>>}}
    /\ Len(u_in.images) = Len(u_in.translations)
    /\ u_frame = <<>>
    /\ u_out = <<>>

CallBlend ==
    /\ u_in.fn = "blend_images"
    /\ u_out = <<>>
    /\ u_out' = <<blend_images(u_in.images, u_in.translations, u_in.method)>>
    /\ UNCHANGED <<pipeVars, u_in, u_frame>>

SpecBlend ==
    InitBlend /\ [][CallBlend]_vars

\* where image k of the call lands on the canvas (offset and clamped size)
PlacedAt(k) ==
    LET b == compute_canvas_bounds(u_in.images, u_in.translations)
    IN  Placement(u_in.images[k], u_in.translations[k], b,
                  CeilPx(b.max_x - b.min_x), CeilPx(b.max_y - b.min_y))

NoAreaInCanvas(k) ==
    PlacedAt(k).w <= 0 \/ PlacedAt(k).h <= 0

\* C9: an image left with no area inside the canvas (clamped width <= 0 or
\* height <= 0) is a logic error and makes the composite call raise, rather
\* than giving a panorama without that image.
C9_NoAreaImageFailsLoudly ==
    (u_in.fn = "blend_images" /\ u_out # <<>>
        /\ \E k \in 1..Len(u_in.images) : NoAreaInCanvas(k))
        => u_out[1].raised # "none"

\* the pixel of image k that lands on a canvas cell
SourcePixel(k, cell) ==
    u_in.images[k].pix[<<cell[1] - PlacedAt(k).y_offset, cell[2] - PlacedAt(k).x_offset>>]

\* the placed images that cover the cell with a non-sentinel pixel
Contributors(cell) ==
    {k \in 1..Len(u_in.images) :
        /\ ~NoAreaInCanvas(k)
        /\ InSlice(cell, PlacedAt(k))
        /\ SourcePixel(k, cell) # <<0, 0, 0>>}

RECURSIVE ChannelSum(_, _, _)
ChannelSum(S, cell, c) ==
    IF S = {} THEN 0
    ELSE LET k == CHOOSE j \in S : TRUE
         IN  SourcePixel(k, cell)[c] + ChannelSum(S \ {k}, cell, c)

\* C10: for every canvas cell, weight is the number of placed images covering
\* it with a non-sentinel pixel; the output is the sum of those images' pixel
\* values divided by that weight (as uint8) when weight > 0 and zero when
\* weight = 0; all-zero pixels add to neither the sum nor the weight.
C10_AverageOfNonSentinelPixels ==
    (u_in.fn = "blend_images" /\ u_out # <<>> /\ u_out[1].raised = "none") =>
        \A cell \in Cells(u_out[1].h, u_out[1].w) :
            LET weight == Cardinality(Contributors(cell))
            IN  \A c \in 1..3 :
                    u_out[1].pix[cell][c] =
                        IF weight > 0
                        THEN ChannelSum(Contributors(cell), cell, c) \div weight
                        ELSE 0

\* a canvas with a cell averaged over two images, a cell where a sentinel
\* pixel lies on a non-sentinel one, and an empty cell
C10_Witness ==
    /\ u_in.fn = "blend_images" /\ u_out # <<>> /\ u_out[1].raised = "none"
    /\ \E cell \in Cells(u_out[1].h, u_out[1].w) :
          /\ Cardinality(Contributors(cell)) = 2
          /\ u_out[1].pix[cell] = <<129, 129, 2>>
    /\ \E cell \in Cells(u_out[1].h, u_out[1].w) :
          /\ Cardinality(Contributors(cell)) = 1
          /\ \E k \in 1..Len(u_in.images) :
                /\ InSlice(cell, PlacedAt(k))
                /\ SourcePixel(k, cell) = <<0, 0, 0>>
    /\ \E cell \in Cells(u_out[1].h, u_out[1].w) :
          /\ Cardinality(Contributors(cell)) = 0
          /\ u_out[1].pix[cell] = <<0, 0, 0>>

\* the offset of image k before any clamping: its placement minus the least
\* placement of the call, rounded to whole pixels
RoundedOffset(k) ==
    LET ks == 1..ZipLen(u_in.images, u_in.translations)
    IN  <<RoundPx(u_in.translations[k][1] - SetMin({u_in.translations[j][1] : j \in ks})),
          RoundPx(u_in.translations[k][2] - SetMin({u_in.translations[j][2] : j \in ks}))>>

\* image k lies entirely inside the returned canvas and is placed unclipped
InsideCanvas(k) ==
    LET img == u_in.images[k]
        x_offset == RoundedOffset(k)[1]
        y_offset == RoundedOffset(k)[2]
    IN  /\ 0 <= x_offset /\ 0 <= y_offset
        /\ x_offset + img.w <= u_out[1].w
        /\ y_offset + img.h <= u_out[1].h
        /\ PlacedAt(k) = [x_offset |-> x_offset, y_offset |-> y_offset,
                          w |-> img.w, h |-> img.h]

PositiveArea(img) ==
    img.h > 0 /\ img.w > 0

\* C25 as stated: for every list of images and index-aligned placements every
\* image lies entirely inside the canvas, none is clipped and the branch that
\* skips an image is never taken.
C25_EveryImageInsideCanvas ==
    (u_in.fn = "blend_images" /\ u_out # <<>>) =>
        /\ u_out[1].raised = "none"
        /\ u_out[1].skipped = <<>>
        /\ \A k \in 1..Len(u_in.images) : InsideCanvas(k)

\* C25 amended: the same for every list of images of positive height and width.
C25_NonEmptyImagesInsideCanvas ==
    (u_in.fn = "blend_images" /\ u_out # <<>>
        /\ \A k \in 1..Len(u_in.images) : PositiveArea(u_in.images[k])) =>
        /\ u_out[1].raised = "none"
        /\ u_out[1].skipped = <<>>
        /\ \A k \in 1..Len(u_in.images) : InsideCanvas(k)

\* two images, the second half a pixel right of and two pixels below the
\* first, on a canvas that is wider and higher than either
C25_Witness ==
    /\ u_in.fn = "blend_images" /\ u_out # <<>>
    /\ Len(u_in.images) = 2
    /\ \A k \in 1..2 : PositiveArea(u_in.images[k])
    /\ u_in.translations = <<(<<0, 0>>), <<1, 4>>>>
    /\ RoundedOffset(2)[2] = 2
    /\ u_out[1].h > u_in.images[1].h
    /\ u_out[1].w > u_in.images[1].w

(* crop_panorama *)

MaxCropSide ==
    3

\* a near-black and a brighter pixel value, and the threshold of the call:
\* greys 10 and 11 around the default, the same on one channel, and greys 5
\* and 9 around a threshold of 7 (the first with a channel above the threshold)
CropStyles ==
    {[dark |-> <<0, 0, 34>>, bright |-> <<0, 0, 36>>, threshold |-> DefaultCropThreshold],
     [dark |-> <<10>>, bright |-> <<11>>, threshold |-> DefaultCropThreshold],
     [dark |-> <<40, 0, 0>>, bright |-> <<9, 9, 9>>, threshold |-> 7]}

\* the h x w image whose cells in B are bright and whose other cells are dark
CropImage(h, w, B, style) ==
    [h |-> h, w |-> w,
     pix |-> [cell \in Cells(h, w) |-> IF cell \in B THEN style.bright ELSE style.dark]]

\* the interior of the bordered canvas: no pixel of it is near-black
CropInterior ==
    [h |-> 2, w |-> 3,
     pix |-> [cell \in Cells(2, 3) |-> <<200, 100 + cell[1], 50 + cell[2]>>]]

\* img inside an all-black border of n pixels on every side
Bordered(img, n) ==
    [h |-> img.h + 2 * n, w |-> img.w + 2 * n,
     pix |-> [cell \in Cells(img.h + 2 * n, img.w + 2 * n) |->
                IF /\ n <= cell[1] /\ cell[1] < n + img.h
                   /\ n <= cell[2] /\ cell[2] < n + img.w
                THEN img.pix[<<cell[1] - n, cell[2] - n>>]
                ELSE <<0, 0, 0>>]]

BorderedCanvas ==
    Bordered(CropInterior, 10)

\* colour pixels for an image that is composited and then cropped with the
\* default threshold: greys 10 and 11, and the compositor's sentinel with white
CompositeStyles ==
    {[dark |-> <<0, 0, 34>>, bright |-> <<0, 0, 36>>],
     [dark |-> <<0, 0, 0>>, bright |-> <<255, 255, 255>>]}

InitCrop ==
    /\ IdlePipeline
    /\ \/ \E h \in 0..MaxCropSide, w \in 0..MaxCropSide, style \in CompositeStyles :
            \E B \in SUBSET Cells(h, w) :
               u_in = [fn |-> "blend_then_crop", images |-> <<CropImage(h, w, B, style)>>,
                       translations |-> <<(<<0, 0>>)>>, method |-> "average"]
       \/ \E h \in 0..MaxCropSide, w \in 0..MaxCropSide, style \in CropStyles :
            \E B \in SUBSET Cells(h, w) :
               u_in = [fn |-> "crop_panorama", image |-> <<CropImage(h, w, B, style)>>,
                       threshold |-> style.threshold]
       \/ u_in = [fn |-> "crop_panorama", image |-> <<BorderedCanvas>>,
                  threshold |-> DefaultCropThreshold]
       \/ u_in = [fn |-> "crop_panorama", image |-> <<>>,
                  threshold |-> DefaultCropThreshold]
    /\ u_frame = <<>>
    /\ u_out = <<>>

CallCrop ==
    /\ u_in.fn = "crop_panorama"
    /\ u_out = <<>>
    /\ u_out' = <<crop_panorama(u_in.image, u_in.threshold)>>
    /\ UNCHANGED <<pipeVars, u_in, u_frame>>

\* pipeline.py steps 7 and 8: panorama = blend_images(...), then
\* cropped = crop_panorama(panorama) unless the compositor raised
CallBlendThenCrop ==
    /\ u_in.fn = "blend_then_crop"
    /\ u_out = <<>>
    /\ LET panorama_ == blend_images(u_in.images, u_in.translations, u_in.method)
       IN  u_out' = <<[panorama |-> panorama_,
                       cropped |-> IF panorama_.raised # "none" THEN <<>>
                                   ELSE <<crop_panorama(
                                            <<[h |-> panorama_.h, w |-> panorama_.w,
                                               pix |-> panorama_.pix]>>,
                                            DefaultCropThreshold)>>]>>
    /\ UNCHANGED <<pipeVars, u_in, u_frame>>

NextCrop ==
    \/ CallCrop
    \/ CallBlendThenCrop

SpecCrop ==
    InitCrop /\ [][NextCrop]_vars

\* the call is on a non-empty array
CropOnCanvas ==
    /\ u_in.fn = "crop_panorama"
    /\ u_in.image # <<>>
    /\ u_in.image[1].h * u_in.image[1].w > 0

\* the cells of the argument whose brightness is strictly above the threshold
BrightCells ==
    {cell \in Cells(u_in.image[1].h, u_in.image[1].w) :
        Gray(u_in.image[1].pix[cell]) > u_in.threshold}

\* C11: crop_panorama returns exactly the tight bounding box of the pixels whose
\* brightness is strictly greater than the threshold: rows y_min..y_max and
\* columns x_min..x_max inclusive, the first and last row/column holding such a
\* pixel; a canvas with a 10 px all-black border on every side around a
\* non-black interior crops to exactly the interior.
C11_CropIsTightBoundingBox ==
    (CropOnCanvas /\ u_out # <<>> /\ BrightCells # {}) =>
        LET y_min == SetMin({cell[1] : cell \in BrightCells})
            y_max == SetMax({cell[1] : cell \in BrightCells})
            x_min == SetMin({cell[2] : cell \in BrightCells})
            x_max == SetMax({cell[2] : cell \in BrightCells})
        IN  /\ u_out[1].raised = "none"
            /\ u_out[1].h = y_max - y_min + 1
            /\ u_out[1].w = x_max - x_min + 1
            /\ DOMAIN u_out[1].pix = Cells(u_out[1].h, u_out[1].w)
            /\ \A cell \in Cells(u_out[1].h, u_out[1].w) :
                   u_out[1].pix[cell] =
                       u_in.image[1].pix[<<cell[1] + y_min, cell[2] + x_min>>]
            /\ (u_in.image[1] = BorderedCanvas =>
                   /\ u_out[1].h = CropInterior.h
                   /\ u_out[1].w = CropInterior.w
                   /\ u_out[1].pix = CropInterior.pix)

\* the bordered canvas, cropped to its interior
C11_Witness ==
    /\ CropOnCanvas /\ u_out # <<>>
    /\ u_in.image[1] = BorderedCanvas
    /\ u_out[1].h = 2 /\ u_out[1].w = 3
    /\ u_out[1].pix = CropInterior.pix

\* C12: when no pixel of a non-empty canvas exceeds the brightness threshold,
\* crop_panorama returns the canvas unmodified (same dimensions, same content)
\* and does not raise.
C12_NothingBrightReturnsCanvas ==
    (CropOnCanvas /\ u_out # <<>> /\ BrightCells = {}) =>
        /\ u_out[1].raised = "none"
        /\ u_out[1].h = u_in.image[1].h
        /\ u_out[1].w = u_in.image[1].w
        /\ u_out[1].pix = u_in.image[1].pix

\* a 2 x 3 canvas of near-black but non-zero pixels, returned as it is
C12_Witness ==
    /\ CropOnCanvas /\ u_out # <<>>
    /\ u_in.image[1].h = 2 /\ u_in.image[1].w = 3
    /\ \A cell \in Cells(2, 3) : u_in.image[1].pix[cell] = <<40, 0, 0>>
    /\ u_out[1].raised = "none"
    /\ u_out[1].pix = u_in.image[1].pix

\* the result of the call, handed to crop_panorama once more
CroppedAgain ==
    crop_panorama(<<[h |-> u_out[1].h, w |-> u_out[1].w, pix |-> u_out[1].pix]>>,
                  u_in.threshold)

BrightInResult(cells) ==
    \E cell \in cells : Gray(u_out[1].pix[cell]) > u_in.threshold

\* C29: crop_panorama is idempotent: for every non-empty image and threshold,
\* cropping the cropped image returns it unchanged; and the first and the last
\* row and column of the cropped image each hold a pixel above the threshold
\* whenever the image has such a pixel.
C29_CropIdempotent ==
    (CropOnCanvas /\ u_out # <<>>) =>
        /\ u_out[1].raised = "none"
        /\ CroppedAgain = u_out[1]
        /\ BrightCells # {} =>
              LET h == u_out[1].h
                  w == u_out[1].w
              IN  /\ BrightInResult({0} \X (0..(w - 1)))
                  /\ BrightInResult({h - 1} \X (0..(w - 1)))
                  /\ BrightInResult((0..(h - 1)) \X {0})
                  /\ BrightInResult((0..(h - 1)) \X {w - 1})

\* a 3 x 3 image cropped to 1 x 2, which a second crop leaves as it is
C29_Witness ==
    /\ CropOnCanvas /\ u_out # <<>>
    /\ u_in.image[1].h = 3 /\ u_in.image[1].w = 3
    /\ u_out[1].h = 1 /\ u_out[1].w = 2
    /\ CroppedAgain = u_out[1]
    /\ BrightInResult({<<0, 0>>}) /\ BrightInResult({<<0, 1>>})

(* estimate_pure_translation_ransac *)

MaxPoints ==
    5

MaxRansacIters ==
    2

\* the translation of the estimator test, (12.5, -7.0) pixels, in half pixels
KnownTranslation ==
    <<25, -14>>

\* the displacement of a pair: the exact translation, one 4 pixels off it
\* (inside the threshold of 5 pixels), one far from it
RansacDisplacements ==
    {KnownTranslation, <<33, -14>>, <<-60, 40>>}

RansacPoints(n) ==
    [i \in 1..n |-> <<20 * i, 6 * i * i>>]

\* pts2[i] = pts1[i] + displacements[i]
MovedPoints(pts1, displacements) ==
    [i \in 1..Len(pts1) |->
        <<pts1[i][1] + displacements[i][1], pts1[i][2] + displacements[i][2]>>]

\* five pairs of which at most two (40%) are outliers, for the run of 500 iterations
ManyIterationInputs ==
    LET t == KnownTranslation
        n == <<33, -14>>
        f == <<-60, 40>>
    IN  {<<t, t, t, t, t>>, <<t, t, t, t, n>>, <<t, t, t, n, n>>, <<t, t, t, n, f>>,
         <<t, t, t, f, f>>, <<f, t, n, t, t>>}

RansacCall(displacements, threshold, max_iters) ==
    [fn |-> "estimate_pure_translation_ransac",
     pts1 |-> RansacPoints(Len(displacements)),
     pts2 |-> MovedPoints(RansacPoints(Len(displacements)), displacements),
     threshold |-> threshold, max_iters |-> max_iters]

InitRansac ==
    /\ IdlePipeline
    /\ \/ \E ds \in SeqsUpTo(RansacDisplacements, MaxPoints) :
            \E threshold \in {0, 10}, max_iters \in {0, MaxRansacIters} :
               u_in = RansacCall(ds, threshold, max_iters)
       \/ \E ds \in ManyIterationInputs : u_in = RansacCall(ds, 10, 500)
    /\ u_frame = <<>>
    /\ u_out = <<>>

\* the call with no point pair returns at once
RansacEnterEmpty ==
    /\ u_in.fn = "estimate_pure_translation_ransac"
    /\ u_frame = <<>> /\ u_out = <<>>
    /\ Len(u_in.pts1) < 1
    /\ u_out' = <<RansacNoPoints>>
    /\ UNCHANGED <<pipeVars, u_in, u_frame>>

RansacEnter ==
    /\ u_in.fn = "estimate_pure_translation_ransac"
    /\ u_frame = <<>> /\ u_out = <<>>
    /\ ~(Len(u_in.pts1) < 1)
    /\ u_frame' = <<RansacFrame(u_in.pts1)>>
    /\ UNCHANGED <<pipeVars, u_in, u_out>>

\* for _ in range(max_iters): idx = np.random.randint(0, n_points)
RansacIterate ==
    /\ u_frame # <<>> /\ u_out = <<>>
    /\ u_frame[1].it < u_in.max_iters
    /\ \E drawn \in 1..Len(u_in.pts1) :
          u_frame' = <<RansacStep(u_frame[1], u_in.pts1, u_in.pts2,
                                  u_in.threshold, drawn)>>
    /\ UNCHANGED <<pipeVars, u_in, u_out>>

RansacReturn ==
    /\ u_frame # <<>> /\ u_out = <<>>
    /\ ~(u_frame[1].it < u_in.max_iters)
    /\ u_out' = <<RansacResult(u_frame[1], u_in.pts1, u_in.pts2)>>
    /\ UNCHANGED <<pipeVars, u_in, u_frame>>

NextRansac ==
    \/ RansacEnterEmpty
    \/ RansacEnter
    \/ RansacIterate
    \/ RansacReturn

SpecRansac ==
    InitRansac /\ [][NextRansac]_vars

RansacReturned ==
    u_in.fn = "estimate_pure_translation_ransac" /\ u_out # <<>>

\* C13: called with fewer than 1 point pair, the estimator returns, without
\* raising and without sampling, translation (0,0), num_inliers 0, inlier_ratio
\* 0.0 and an empty inlier mask.
C13_NoPointsZeroEstimate ==
    (u_in.fn = "estimate_pure_translation_ransac" /\ Len(u_in.pts1) < 1) =>
        /\ u_frame = <<>>
        /\ u_out # <<>> =>
             /\ u_out[1].raised = "none"
             /\ u_out[1].translation = <<0, 0>>
             /\ u_out[1].num_inliers = 0
             /\ u_out[1].inlier_ratio[1] = 0
             /\ u_out[1].inliers = <<>>

C13_Witness ==
    /\ RansacReturned
    /\ u_in.pts1 = <<>>
    /\ u_in.max_iters > 0
    /\ u_out[1].translation = <<0, 0>>

\* C14: for every result, inlier_ratio = num_inliers / total_points (0.0 for an
\* empty input), 0 <= num_inliers <= total_points, and so 0 <= inlier_ratio <= 1.
C14_RatioIsInliersOverTotal ==
    RansacReturned =>
        LET total_points == Len(u_in.pts1)
            ratio == u_out[1].inlier_ratio
        IN  /\ ratio[2] > 0
            /\ IF total_points = 0
               THEN ratio[1] = 0
               ELSE ratio[1] * total_points = u_out[1].num_inliers * ratio[2]
            /\ 0 <= u_out[1].num_inliers
            /\ u_out[1].num_inliers <= total_points
            /\ 0 <= ratio[1] /\ ratio[1] <= ratio[2]

\* three inliers among five pairs
C14_Witness ==
    /\ RansacReturned
    /\ Len(u_in.pts1) = 5
    /\ u_out[1].num_inliers = 3
    /\ u_out[1].inlier_ratio = <<3, 5>>

\* the pairs that are exactly KnownTranslation apart
Uncorrupted ==
    {i \in 1..Len(u_in.pts1) : Displacement(u_in.pts1, u_in.pts2, i) = KnownTranslation}

\* the call of the estimator test: threshold 5.0 px, at most 40% outliers
KnownTranslationCall ==
    /\ RansacReturned
    /\ Len(u_in.pts1) > 0
    /\ u_in.threshold = 10
    /\ 10 * (Len(u_in.pts1) - Cardinality(Uncorrupted)) <= 4 * Len(u_in.pts1)

\* the result is within 0.5 px of KnownTranslation with an inlier ratio >= 0.6
KnownTranslationRecovered ==
    LET ex == u_out[1].translation[1] - 2 * KnownTranslation[1]
        ey == u_out[1].translation[2] - 2 * KnownTranslation[2]
    IN  /\ ex * ex + ey * ey <= 2 * 2
        /\ 10 * u_out[1].inlier_ratio[1] >= 6 * u_out[1].inlier_ratio[2]

\* C15 as stated: two point sets related by the exact translation (12.5, -7.0)
\* with up to 40% of the points replaced by outliers, threshold 5.0 px and at
\* least 500 iterations: the result is within 0.5 px of the translation and
\* its inlier ratio is >= 0.6.
C15_RecoversKnownTranslation ==
    (KnownTranslationCall /\ u_in.max_iters >= 500) => KnownTranslationRecovered

\* C15 amended: the same result whenever at least one iteration drew an
\* uncorrupted pair, whatever the number of iterations.
C15_RecoversWhenInlierDrawn ==
    (KnownTranslationCall /\ u_frame[1].sampled \cap Uncorrupted # {})
        => KnownTranslationRecovered

\* 500 iterations that drew outliers and uncorrupted pairs, the outliers near
\* the translation being counted as inliers
C15_Witness ==
    /\ KnownTranslationCall
    /\ u_in.max_iters = 500
    /\ u_frame[1].it = 500
    /\ u_frame[1].sampled \cap Uncorrupted # {}
    /\ u_frame[1].sampled \ Uncorrupted # {}
    /\ Cardinality(Uncorrupted) = 3
    /\ u_out[1].num_inliers = 4
    /\ u_out[1].translation = <<50, -28>>

\* the pairs whose displacement is within the threshold of the displacement
\* of pair i: the inliers of the hypothesis sampled from pair i
Supporters(i) ==
    {j \in 1..Len(u_in.pts1) :
        LET a == Displacement(u_in.pts1, u_in.pts2, i)
            b == Displacement(u_in.pts1, u_in.pts2, j)
        IN  (a[1] - b[1]) * (a[1] - b[1]) + (a[2] - b[2]) * (a[2] - b[2])
                < u_in.threshold * u_in.threshold}

InRansacLoop ==
    u_in.fn = "estimate_pure_translation_ransac" /\ u_frame # <<>>

\* C23: in the sampling loop the retained hypothesis has the highest inlier
\* count of the hypotheses sampled so far, and an iteration replaces it only
\* by a hypothesis of strictly higher count, so that of hypotheses with equal
\* counts the first one sampled stays.
C23_FirstBestHypothesisRetained ==
    [][(InRansacLoop /\ u_frame' # <<>>) =>
          LET old == u_frame[1]
              new == u_frame'[1]
          IN  /\ new.best_inliers >= old.best_inliers
              /\ (new.best_translation # old.best_translation
                    \/ new.best_mask # old.best_mask)
                  => new.best_inliers > old.best_inliers
              /\ \A i \in new.sampled : Cardinality(Supporters(i)) <= new.best_inliers
              /\ new.best_inliers > 0 =>
                    \E i \in new.sampled :
                        /\ Cardinality(Supporters(i)) = new.best_inliers
                        /\ new.best_translation
                              = <<2 * Displacement(u_in.pts1, u_in.pts2, i)[1],
                                  2 * Displacement(u_in.pts1, u_in.pts2, i)[2]>>
                        /\ {j \in 1..Len(u_in.pts1) : new.best_mask[j]} = Supporters(i)]_vars

\* two iterations sampled two different hypotheses with the same inlier count
C23_Witness ==
    /\ InRansacLoop
    /\ u_frame[1].it = 2
    /\ \E i, j \in u_frame[1].sampled :
          /\ Displacement(u_in.pts1, u_in.pts2, i) # Displacement(u_in.pts1, u_in.pts2, j)
          /\ Cardinality(Supporters(i)) = u_frame[1].best_inliers
          /\ Cardinality(Supporters(j)) = u_frame[1].best_inliers
          /\ u_frame[1].best_inliers >= 2

\* the values of coordinate c of the displacements of the pairs in S, and
\* twice their median: the sum of the values of rank (k-1) div 2 and k div 2
\* (counted from 0) among the k values
RankedValue(S, c, rank) ==
    CHOOSE v \in {Displacement(u_in.pts1, u_in.pts2, i)[c] : i \in S} :
        /\ Cardinality({i \in S : Displacement(u_in.pts1, u_in.pts2, i)[c] < v}) <= rank
        /\ Cardinality({i \in S : Displacement(u_in.pts1, u_in.pts2, i)[c] <= v}) > rank

TwiceMedianOver(S, c) ==
    RankedValue(S, c, (Cardinality(S) - 1) \div 2) + RankedValue(S, c, Cardinality(S) \div 2)

WinningInliers ==
    {i \in 1..Len(u_in.pts1) : u_out[1].inliers[i]}

\* C24: after the iterations, when the winning inlier set is not empty the
\* returned translation is the coordinate-wise median of pts2 - pts1 over
\* exactly the winning inlier set, the set of the returned mask; when no
\* hypothesis had an inlier it is (0,0).
C24_TranslationIsMedianOfInliers ==
    (RansacReturned /\ u_frame # <<>>) =>
        /\ WinningInliers = {i \in 1..Len(u_in.pts1) : u_frame[1].best_mask[i]}
        /\ Cardinality(WinningInliers) = u_out[1].num_inliers
        /\ IF WinningInliers # {}
           THEN u_out[1].translation
                    = <<TwiceMedianOver(WinningInliers, 1), TwiceMedianOver(WinningInliers, 2)>>
           ELSE u_out[1].translation = <<0, 0>>

\* the winning hypothesis is 4 pixels off the median of its three inliers,
\* and their mean is neither
C24_Witness ==
    /\ RansacReturned /\ u_frame # <<>>
    /\ u_out[1].num_inliers = 3
    /\ u_frame[1].best_translation = <<66, -28>>
    /\ u_out[1].translation = <<50, -28>>

\* C27: throughout the loop best_inliers never decreases and equals the number
\* of true entries of best_mask; for a non-empty input with max_iters >= 1 and
\* threshold > 0 the returned num_inliers is >= 1; with max_iters = 0 the
\* result is translation (0,0) with num_inliers 0.
C27_BestInliersCountsBestMask ==
    /\ [](InRansacLoop => u_frame[1].best_inliers = CountTrue(u_frame[1].best_mask))
    /\ []((RansacReturned /\ Len(u_in.pts1) >= 1) =>
            /\ u_out[1].num_inliers = CountTrue(u_out[1].inliers)
            /\ (u_in.max_iters >= 1 /\ u_in.threshold > 0) => u_out[1].num_inliers >= 1
            /\ u_in.max_iters = 0 =>
                  u_out[1].translation = <<0, 0>> /\ u_out[1].num_inliers = 0)
    /\ [][(InRansacLoop /\ u_frame' # <<>>) =>
             u_frame'[1].best_inliers >= u_frame[1].best_inliers]_vars

\* the second iteration raised the count from 1 to 2, and the call returned it
C27_Witness ==
    /\ RansacReturned /\ u_frame # <<>>
    /\ u_in.max_iters = 2
    /\ u_frame[1].it = 2
    /\ Len(u_in.pts1) = 3
    /\ \E i \in u_frame[1].sampled : Cardinality(Supporters(i)) = 1
    /\ u_out[1].num_inliers = 2
    /\ CountTrue(u_out[1].inliers) = 2

\* C28: the refined (median) translation differs from the winning sampled
\* hypothesis by less than the inlier threshold in each coordinate
\* (translations are in quarter pixels, the threshold in half pixels).
C28_RefinedWithinThreshold ==
    (RansacReturned /\ u_frame # <<>> /\ u_frame[1].best_inliers > 0) =>
        \A c \in 1..2 :
            Abs(u_out[1].translation[c] - u_frame[1].best_translation[c])
                < 2 * u_in.threshold

\* two inliers 4 pixels apart: the median is 2 pixels from the hypothesis
C28_Witness ==
    /\ RansacReturned /\ u_frame # <<>>
    /\ u_out[1].num_inliers = 2
    /\ u_out[1].translation = <<58, -28>>
    /\ u_frame[1].best_translation[1] \in {50, 66}
    /\ Len(u_in.pts1) >= 3

(* match_features *)

MaxDescriptors ==
    3

\* distances 7 and 10 from 0 sit on the boundary of the ratio 7/10
DescriptorValues ==
    {0, 7, 10, 20}

DescriptorSets ==
    {<<>>} \cup {<<ds>> : ds \in SeqsUpTo(DescriptorValues, MaxDescriptors)}

RatioThresholds ==
    {<<7, 10>>, <<1, 1>>}

InitMatch ==
    /\ IdlePipeline
    /\ \E d1 \in DescriptorSets, d2 \in DescriptorSets, r \in RatioThresholds :
          u_in = [fn |-> "match_features", descriptors1 |-> d1, descriptors2 |-> d2,
                  ratio_threshold |-> r]
    /\ u_frame = <<>>
    /\ u_out = <<>>

CallMatch ==
    /\ u_in.fn = "match_features"
    /\ u_out = <<>>
    /\ u_out' = <<[value |-> match_features(u_in.descriptors1, u_in.descriptors2,
                                            u_in.ratio_threshold)]>>
    /\ UNCHANGED <<pipeVars, u_in, u_frame>>

NextMatch ==
    \/ CallMatch

SpecMatch ==
    InitMatch /\ [][NextMatch]_vars

\* the distances from query q (1-based) to the train descriptors
DistanceTo(q, j) ==
    Abs(u_in.descriptors1[1][q] - u_in.descriptors2[1][j])

\* j is a nearest train descriptor of q and k, another one, a second nearest
NearestAndSecond(q, j, k) ==
    /\ j # k
    /\ \A l \in 1..Len(u_in.descriptors2[1]) : DistanceTo(q, j) <= DistanceTo(q, l)
    /\ \A l \in 1..Len(u_in.descriptors2[1]) \ {j} : DistanceTo(q, k) <= DistanceTo(q, l)

\* query q has two neighbours and passes distance(nearest) < r * distance(second)
PassesRatio(q) ==
    \E j, k \in 1..Len(u_in.descriptors2[1]) :
        /\ NearestAndSecond(q, j, k)
        /\ DistanceTo(q, j) * u_in.ratio_threshold[2]
              < u_in.ratio_threshold[1] * DistanceTo(q, k)

\* C16: match_features keeps a candidate's nearest match if and only if the
\* candidate has two neighbours and distance(nearest) < r * distance(second
\* nearest), strictly; it preserves candidate order; it returns the empty list
\* when no candidate passes or when either descriptor set is None.
C16_RatioTestStrictInOrder ==
    (u_in.fn = "match_features" /\ u_out # <<>>) =>
        LET good == u_out[1].value
        IN  IF u_in.descriptors1 = <<>> \/ u_in.descriptors2 = <<>>
            THEN good = <<>>
            ELSE /\ \A q \in 1..Len(u_in.descriptors1[1]) :
                       (\E i \in 1..Len(good) : good[i].queryIdx = q - 1) <=> PassesRatio(q)
                 /\ \A i \in 1..Len(good) :
                       /\ good[i].queryIdx + 1 \in 1..Len(u_in.descriptors1[1])
                       /\ good[i].trainIdx + 1 \in 1..Len(u_in.descriptors2[1])
                       /\ good[i].distance
                             = DistanceTo(good[i].queryIdx + 1, good[i].trainIdx + 1)
                       /\ \A l \in 1..Len(u_in.descriptors2[1]) :
                             good[i].distance <= DistanceTo(good[i].queryIdx + 1, l)
                 /\ \A i, k \in 1..Len(good) :
                       i < k => good[i].queryIdx < good[k].queryIdx

\* of three candidates the first sits on the boundary 7 = 0.7 * 10 and is
\* dropped, the other two are kept in order
C16_Witness ==
    /\ u_in.fn = "match_features" /\ u_out # <<>>
    /\ u_in.ratio_threshold = <<7, 10>>
    /\ u_in.descriptors1 = <<(<<0, 10, 20>>)>>
    /\ u_in.descriptors2 = <<(<<7, 10, 20>>)>>
    /\ Len(u_out[1].value) = 2
    /\ u_out[1].value[1].queryIdx = 1
    /\ u_out[1].value[2].queryIdx = 2

(* blend_images of a single image, then crop_panorama *)

\* no outermost row or column of img is near-black throughout
NoNearBlackBorder(img) ==
    /\ img.h > 0 /\ img.w > 0
    /\ \A y \in {0, img.h - 1} :
          \E x \in 0..(img.w - 1) : Gray(img.pix[<<y, x>>]) > DefaultCropThreshold
    /\ \A x \in {0, img.w - 1} :
          \E y \in 0..(img.h - 1) : Gray(img.pix[<<y, x>>]) > DefaultCropThreshold

\* C17: compositing a single image at placement (0,0) with average blending
\* returns an image of the same dimensions with every pixel value unchanged,
\* and cropping that result changes nothing when the image has no near-black
\* border.
C17_SingleImageUnchanged ==
    (u_in.fn = "blend_then_crop" /\ u_out # <<>>) =>
        LET img == u_in.images[1]
            panorama_ == u_out[1].panorama
        IN  /\ panorama_.raised = "none"
            /\ panorama_.h = img.h /\ panorama_.w = img.w
            /\ panorama_.pix = img.pix
            /\ NoNearBlackBorder(img) =>
                  /\ u_out[1].cropped # <<>>
                  /\ u_out[1].cropped[1].raised = "none"
                  /\ u_out[1].cropped[1].h = img.h
                  /\ u_out[1].cropped[1].w = img.w
                  /\ u_out[1].cropped[1].pix = img.pix

\* a 3 x 3 image with sentinel pixels inside and on its border, but no border
\* row or column black throughout
C17_Witness ==
    /\ u_in.fn = "blend_then_crop" /\ u_out # <<>>
    /\ u_in.images[1].h = 3 /\ u_in.images[1].w = 3
    /\ NoNearBlackBorder(u_in.images[1])
    /\ u_in.images[1].pix[<<1, 1>>] = <<0, 0, 0>>
    /\ u_in.images[1].pix[<<0, 0>>] = <<0, 0, 0>>
    /\ u_out[1].cropped[1].pix = u_in.images[1].pix

(* blend_images, every method name *)

MethodImageInputs ==
    {ImageOf(<<2, 2>>, 1), ImageOf(<<1, 2>>, 3)}

MethodOffsets ==
    {<<0, 0>>, <<0, 3>>, <<1, -2>>}

InitBlendMethods ==
    /\ IdlePipeline
    /\ \E k \in 0..MaxBlendImages :
          \E imgs \in [1..k -> MethodImageInputs], ts \in [1..k -> MethodOffsets],
             method \in ConfiguredBlendMethods :
                u_in = [fn |-> "blend_images", images |-> imgs, translations |-> ts,
                        method |-> method]
    /\ u_frame = <<>>
    /\ u_out = <<>>

SpecBlendMethods ==
    InitBlendMethods /\ [][CallBlend]_vars

\* C18: for every list of images and placements, blend_images with method
\* "linear" and with method "multiband" returns the same panorama as with
\* method "average" (the same error for an empty list), and any other method
\* name raises an error.
C18_OtherMethodsFallBackToAverage ==
    (u_in.fn = "blend_images" /\ u_out # <<>>) =>
        /\ u_in.method \in {"linear", "multiband"} =>
              u_out[1] = blend_images(u_in.images, u_in.translations, "average")
        /\ u_in.method \notin {"average", "linear", "multiband"} =>
              u_out[1].raised = "ValueError"

\* two overlapping images blended with method "linear" into a panorama
C18_Witness ==
    /\ u_in.fn = "blend_images" /\ u_out # <<>>
    /\ u_in.method = "linear"
    /\ Len(u_in.images) = 2
    /\ u_in.translations = <<(<<0, 0>>), <<0, 3>>>>
    /\ u_out[1].raised = "none"
    /\ u_out[1].h = 4
    /\ \E cell \in Cells(u_out[1].h, u_out[1].w) : u_out[1].pix[cell] # <<0, 0, 0>>

(* warp_cylindrical *)

\* (height, width) of the image to warp
WarpShapes ==
    {<<2, 2>>, <<2, 4>>, <<2, 5>>, <<3, 3>>, <<4, 2>>, <<4, 4>>, <<4, 8>>}

WarpFocalLengths ==
    {1, 2, 4}

WarpSeeds ==
    {0, 1, 2, 3}

\* an image of one colour, no pixel of it black
WhiteImage(shape) ==
    [h |-> shape[1], w |-> shape[2],
     pix |-> [cell \in Cells(shape[1], shape[2]) |-> <<255, 255, 255>>]]

InitWarp ==
    /\ IdlePipeline
    /\ \E shape \in WarpShapes, f \in WarpFocalLengths :
          /\ AnglesTabulated(shape[1], f)
          /\ MapDetermined(shape[1], shape[2], f)
          /\ \E image \in {ImageOf(shape, seed) : seed \in WarpSeeds}
                            \cup {WhiteImage(shape)} :
                u_in = [fn |-> "warp_cylindrical", image |-> image, focal_length |-> f]
    /\ u_frame = <<>>
    /\ u_out = <<>>

CallWarp ==
    /\ u_in.fn = "warp_cylindrical"
    /\ u_out = <<>>
    /\ u_out' = <<warp_cylindrical(u_in.image, u_in.focal_length)>>
    /\ UNCHANGED <<pipeVars, u_in, u_frame>>

SpecWarp ==
    InitWarp /\ [][CallWarp]_vars

\* the source position of a destination pixel lies outside the source image,
\* whose pixels cover [-1/2, w - 1/2] x [-1/2, h - 1/2]
SourceOutside(cell, h, w, focal) ==
    LET x == x_planar(cell[2], cell[1], h, w, focal)
        y == y_planar(cell[1], h, focal)
    IN  \/ x[2] < -1000000
        \/ x[1] > (2 * w - 1) * 1000000
        \/ y[2] < -1000000
        \/ y[1] > (2 * h - 1) * 1000000

\* C22: warp_cylindrical returns an image with the height and the width of its
\* input; theta comes from the vertical coordinate, so that a row at the
\* height of the centre (theta = 0) is copied pixel for pixel; and every
\* destination pixel whose source coordinates fall outside the source image
\* is zero.
C22_WarpSameSizeZeroOutside ==
    (u_in.fn = "warp_cylindrical" /\ u_out # <<>>) =>
        LET image == u_in.image
            f == u_in.focal_length
            warped == u_out[1]
        IN  /\ warped.h = image.h
            /\ warped.w = image.w
            /\ \A cell \in Cells(image.h, image.w) :
                  /\ 2 * cell[1] = image.h => warped.pix[cell] = image.pix[cell]
                  /\ SourceOutside(cell, image.h, image.w, f) =>
                        warped.pix[cell] = <<0, 0, 0>>

====
